---- MODULE Spec2Model ----
(***************************************************************************)
(* Model of the embedding pipeline of hanzoai/memory:                      *)
(*   - CachedEmbeddingService (packages/embedding base class): the cache   *)
(*     map, the hit/miss counters, embed and embedBatch;                   *)
(*   - the worker-pool embedBatch of the llama.cpp providers;              *)
(*   - EmbeddingFactory and the lifecycle of the providers it builds.      *)
(* Arrays are 1-based here (index i of the model is index i-1 of the       *)
(* code). A JavaScript array with holes, and a Map, are functions whose    *)
(* domain is the set of populated indices / present keys.                  *)
(***************************************************************************)
EXTENDS Integers, Sequences, FiniteSets, TLC

\* ------------------------------------------------------------------ bounds
\* Longest batch handed to CachedEmbeddingService.embedBatch.
MaxBatch == 3
\* Cache lookups (hits + misses) between two clearCache() calls.
MaxLookups == 5

\* Texts that callers whose calls overlap ask for between two clearCache() calls.
MaxSharedLookups == 3

\* Longest batch handed to the worker-pool embedBatch.
MaxPoolBatch == 3
\* Largest maxConcurrency a provider is configured with.
MaxConc == 2
\* Provider objects constructed in one run.
MaxInst == 2

\* Entities created in the store in one run.
MaxIds == 2
\* Rows added to the LanceDB tables in one run.
MaxRows == 2
\* Memories in the store that MemoryService.search is run on.
MaxResults == 3
\* Longest JSON array the model answers filterResults with.
MaxIndices == 2

\* Longest candidate list handed to findKNearest, and the most memories in
\* the store whose ranking is examined.
MaxCandidates == 3
\* Provider objects constructed by or handed to the embeddings module in one run.
MaxServices == 3
\* embed calls made on the mock providers in one run.
MaxMockCalls == 2

\* Largest maxRetries a retry call is given.
MaxRetries == 2

\* `maxConcurrency || 4`, `maxConcurrency: number = 4`
DefaultConcurrency == 4

\* ------------------------------------------------------------ value spaces
\* Input texts, as sequences of character codes ("ab", "ba").
Texts == {<<97, 98>>, <<98, 97>>}
\* Embedding vectors a wrapped provider can answer with.
Emb == {<<1, 0>>, <<0, 1>>}
\* Call slots: the embed / embedBatch calls that can be in progress.
Slots == {"s1", "s2"}
\* Callers of the factory's operations.
Procs == {"p1", "p2"}
\* The slot / the caller used when calls do not overlap.
SeqSlots == {"s1"}
SeqProcs == {"p1"}

VARIABLES
  \* CachedEmbeddingService
  cache,        \* Map<string, number[]>: a function from the cached texts
  cacheHits,    \* counter
  cacheMisses,  \* counter
  calls,        \* per slot: the embed / embedBatch call it runs
  provDet,      \* whether the wrapped provider is a deterministic function of the text
  provFn,       \* that function, when it is
  warm,         \* history: texts some call completed for since the last clearCache()
  firstStored,  \* history: what the cache held for a text when it first became warm
  requested,    \* history: texts asked for since construction or the last clearCache()
  found,        \* history: how many of them the Map held when they were looked up
  computed,      \* history: per text, how often it was handed to the wrapped provider
  fresh         \* history: texts stored by calls that began after the last clearCache()

varsCache == <<cache, cacheHits, cacheMisses, calls, provDet, provFn, warm, firstStored,
               requested, found, computed, fresh>>

VARIABLES
  \* worker-pool embedBatch of the llama.cpp providers
  poolImpl,      \* "package" (LlamaCppEmbeddingService) or "service" (LlamaCppBatchEmbeddingService)
  poolCfg,       \* the configured maxConcurrency: [given, n]
  poolTexts,     \* texts, the argument of embedBatch
  poolPhase,     \* "idle", "running", "resolved", "rejected": the embedBatch promise
  queue,         \* the shared queue of {text, index}
  poolResults,   \* the pre-sized results array
  workers,       \* per worker: pc ("await", "done", "failed") and the item it embeds
  delivered,     \* what embedBatch resolved with
  outstanding,   \* history: single-item embed calls started and not yet settled
  started,       \* history: per index, how many embed calls were started for it
  takenBy,       \* history: per index, the workers that took it from the queue
  failedIdx      \* history: the indices whose embed call failed

varsPool == <<poolImpl, poolCfg, poolTexts, poolPhase, queue, poolResults, workers,
              delivered, outstanding, started, takenBy, failedIdx>>

VARIABLES
  \* EmbeddingFactory and the providers it builds
  instances,     \* EmbeddingFactory.instances: Map<string, EmbeddingService>, key -> instance
  insts,         \* every provider object constructed so far, by identity (its position)
  fops,          \* per caller: the factory operation it runs
  embedLog       \* history: the last embed / embedBatch call made on an instance

varsFactory == <<instances, insts, fops, embedLog>>

\* What the actions of one component leave alone.
VARIABLES
  \* MemoryDB: each Map as the sequence of its values in insertion order
  projects, memories, knowledgeBases, facts, chatSessions, chatMessages,
  nextId,       \* the number of the next uuid
  storeRet      \* the latest store call and what it returned

varsStore == <<projects, memories, knowledgeBases, facts, chatSessions, chatMessages,
               nextId, storeRet>>

VARIABLES
  \* LanceDBClient: the rows of the memories, facts and chat_messages tables
  lanceRows,    \* per table, its rows in insertion order
  lanceNextId,  \* the number of the next uuid
  lanceOps      \* per caller: the delete-by-scope call it runs

varsLance == <<lanceRows, lanceNextId, lanceOps>>

VARIABLES
  \* MemoryService and MemoryClient over the in-memory store
  svcConfig,    \* config.stripPiiDefault, config.filterWithLlmDefault, the llm service in use
  svcCall,      \* the service call in progress: its request, position and locals
  svcTrace      \* history: the calls it made on the llm, the embeddings and the store

varsService == <<svcConfig, svcCall, svcTrace>>

VARIABLES
  \* MockEmbeddingService (both copies)
  mockLog       \* history: the embed calls made, each with its text, dimension and result

varsMock == <<mockLog>>

VARIABLES
  \* findKNearest (packages/embedding utils)
  knn           \* the latest findKNearest call and what it returned

varsKnn == <<knn>>

VARIABLES
  \* LanceDBClient: its table handles, over the rows of lanceRows
  tableNames,   \* the tables the database holds: conn.tableNames()
  handles,      \* per table, the client's field (memoriesTable, ...): a handle or null
  opened,       \* history: per table, the createTable / openTable calls made since construction or close()
  used,         \* history: per table, the handles operations ran on since construction or close()
  clientCalls   \* per caller: the method of the client it runs

varsClient == <<tableNames, handles, opened, used, clientCalls>>

VARIABLES
  \* services/embeddings.ts: the module's provider
  embeddingProvider,  \* config.embeddingProvider and whether an OpenAI key is configured
  embeddingService,   \* `let embeddingService`: a provider object or null
  getCalls,           \* per caller: its getEmbeddingService call
  nextService,        \* the number of the next provider object
  lastSet,            \* history: the argument of the latest setEmbeddingService, if any
  returnedSince,      \* history: what the calls made since the latest setEmbeddingService returned
  madeSince           \* history: the providers those calls constructed

varsModule == <<embeddingProvider, embeddingService, getCalls, nextService, lastSet,
                returnedSince, madeSince>>

VARIABLES
  \* retry (packages/embedding utils)
  retryCall     \* the retry call in progress: its options, loop variables and history

varsRetry == <<retryCall>>

notCache == <<varsPool, varsFactory, varsStore, varsLance, varsService, varsMock, varsKnn, varsClient, varsModule, varsRetry>>
notPool == <<varsCache, varsFactory, varsStore, varsLance, varsService, varsMock, varsKnn, varsClient, varsModule, varsRetry>>
notFactory == <<varsCache, varsPool, varsStore, varsLance, varsService, varsMock, varsKnn, varsClient, varsModule, varsRetry>>
notStore == <<varsCache, varsPool, varsFactory, varsLance, varsService, varsMock, varsKnn, varsClient, varsModule, varsRetry>>
notLance == <<varsCache, varsPool, varsFactory, varsStore, varsService, varsMock, varsKnn, varsClient, varsModule, varsRetry>>
notService == <<varsCache, varsPool, varsFactory, varsLance, varsMock, varsKnn, varsClient, varsModule, varsRetry>>
notMock == <<varsCache, varsPool, varsFactory, varsStore, varsLance, varsService, varsKnn, varsClient, varsModule, varsRetry>>
notKnn == <<varsCache, varsPool, varsFactory, varsLance, varsService, varsMock, varsClient, varsModule, varsRetry>>
notClient == <<varsCache, varsPool, varsFactory, varsService, varsMock, varsKnn, varsModule, varsRetry>>
notModule == <<varsCache, varsPool, varsFactory, varsStore, varsLance, varsService, varsMock, varsKnn, varsClient, varsRetry>>
notRetry == <<varsCache, varsPool, varsFactory, varsStore, varsLance, varsService, varsMock, varsKnn, varsClient, varsModule>>

\* ------------------------------------------------------------------ helpers
Range(f) == {f[x] : x \in DOMAIN f}

\* Sequences over S of length at most n.
SeqUpTo(S, n) == UNION {[1..k -> S] : k \in 0..n}

\* The empty Map / the array with no populated index.
Empty == <<>>

\* f with key k set to v (Map.set, or an array store that may leave holes).
Put(f, k, v) == [x \in (DOMAIN f) \cup {k} |-> IF x = k THEN v ELSE f[x]]

\* The length JavaScript reports for an array: one past its last populated index.
ArrayLength(a) == IF DOMAIN a = {} THEN 0 ELSE CHOOSE m \in DOMAIN a : \A x \in DOMAIN a : x <= m

\* ------------------------------------------------- CachedEmbeddingService
IdleCall ==
  [op |-> "none", pc |-> "idle", texts |-> <<>>, results |-> Empty,
   uncachedTexts |-> <<>>, uncachedIndices |-> <<>>, invoked |-> <<>>,
   writes |-> <<>>, ret |-> Empty, stale |-> FALSE]

\* What the wrapped provider may answer for text t.
ProviderOut(t) == IF provDet THEN {provFn[t]} ELSE Emb

InitCache ==
  /\ cache = Empty
  /\ cacheHits = 0
  /\ cacheMisses = 0
  /\ calls = [s \in Slots |-> IdleCall]
  /\ provDet \in BOOLEAN
  /\ provFn \in [Texts -> Emb]
  /\ (~provDet => provFn = [t \in Texts |-> <<1, 0>>])
  /\ warm = {}
  /\ firstStored = Empty
  /\ requested = 0
  /\ found = 0
  /\ computed = [t \in Texts |-> 0]
  /\ fresh = {}

\* The count of provider computations after the texts us were handed over
\* (history only).
StartedAfter(us) ==
  [t \in Texts |-> computed[t] + Cardinality({i \in 1..Len(us) : us[i] = t})]

\* The call records after a clearCache(): a call that awaits the provider
\* began before it (history only).
Overtaken(cs) == [x \in Slots |-> IF cs[x].pc = "await" THEN [cs[x] EXCEPT !.stale = TRUE] ELSE cs[x]]

\* How many of the texts ts the Map holds (history only).
HeldCount(ts) == Cardinality({i \in 1..Len(ts) : ts[i] \in DOMAIN cache})

\* A lookup that never finds the text (the cache is not consulted).
Cached_Never(t) == FALSE

\* `const cached = this.cache.get(text); if (cached)`: a stored array is truthy.
Cached(t) == t \in DOMAIN cache

\* A slot a new call may use: one whose previous call has settled.
Free(s) == calls[s].pc # "await"

\* The call records a new call finds: a settled call's record is dropped (its
\* caller has taken the result), a call still awaiting the provider is kept.
Retire(cs) == [x \in Slots |-> IF cs[x].pc = "await" THEN cs[x] ELSE IdleCall]

\* No call is awaiting the wrapped provider.
CacheQuiet == \A s \in Slots : Free(s)

\* History kept when a call resolves for the texts ts, the cache then being c.
WarmAfter(ts) == warm \cup Range(ts)
FirstStoredAfter(ts, c) ==
  [t \in (DOMAIN firstStored) \cup (Range(ts) \cap DOMAIN c) |->
     IF t \in DOMAIN firstStored THEN firstStored[t] ELSE c[t]]

\* embed(text) that asks the wrapped provider whether the text is cached or not.
EmbedStart_Recomputes(s, t) ==
  /\ Free(s)
  /\ cacheHits + cacheMisses + 1 <= MaxLookups
  /\ cacheMisses' = cacheMisses + 1
  /\ cacheHits' = cacheHits
  /\ calls' = [Retire(calls) EXCEPT ![s] =
       [IdleCall EXCEPT !.op = "embed", !.pc = "await", !.texts = <<t>>,
                        !.invoked = <<[fn |-> "embedUncached", arg |-> <<t>>]>>]]
  /\ requested' = requested + 1
  /\ found' = found + HeldCount(<<t>>)
  /\ computed' = StartedAfter(<<t>>)
  /\ UNCHANGED <<notCache, cache, provDet, provFn, fresh, warm, firstStored>>

\* embed(text), up to its first await: the cache lookup, and on a miss the
\* call of embedUncached.
EmbedStart(s, t) ==
  /\ Free(s)
  /\ cacheHits + cacheMisses + 1 <= MaxLookups
  /\ IF Cached(t)
       THEN /\ cacheHits' = cacheHits + 1
            /\ cacheMisses' = cacheMisses
            /\ calls' = [Retire(calls) EXCEPT ![s] =
                 [IdleCall EXCEPT !.op = "embed", !.pc = "resolved", !.texts = <<t>>,
                                  !.ret = <<cache[t]>>]]
            /\ warm' = WarmAfter(<<t>>)
            /\ firstStored' = FirstStoredAfter(<<t>>, cache)
       ELSE /\ cacheMisses' = cacheMisses + 1
            /\ cacheHits' = cacheHits
            /\ calls' = [Retire(calls) EXCEPT ![s] =
                 [IdleCall EXCEPT !.op = "embed", !.pc = "await", !.texts = <<t>>,
                                  !.invoked = <<[fn |-> "embedUncached", arg |-> <<t>>]>>]]
            /\ UNCHANGED <<warm, firstStored>>
  /\ requested' = requested + 1
  /\ found' = found + HeldCount(<<t>>)
  /\ computed' = StartedAfter(IF Cached(t) THEN <<>> ELSE <<t>>)
  /\ UNCHANGED <<notCache, cache, provDet, provFn, fresh>>

\* embedUncached resolved with e: the result is cached and returned.
EmbedResolve(s, e) ==
  /\ calls[s].op = "embed" /\ calls[s].pc = "await"
  /\ e \in ProviderOut(calls[s].texts[1])
  /\ LET t == calls[s].texts[1] IN
       /\ cache' = Put(cache, t, e)
       /\ calls' = [calls EXCEPT ![s].pc = "resolved", ![s].ret = <<e>>,
                                 ![s].writes = <<<<t, e>>>>]
       /\ warm' = WarmAfter(<<t>>)
       /\ firstStored' = FirstStoredAfter(<<t>>, cache')
       /\ fresh' = IF calls[s].stale THEN fresh ELSE fresh \cup {t}
  /\ UNCHANGED <<notCache, cacheHits, cacheMisses, provDet, provFn, requested, found, computed>>

\* A failed call leaves an entry without numbers for each text it asked the
\* provider for.
CallReject_Poisons(s) ==
  /\ calls[s].pc = "await"
  /\ calls' = [calls EXCEPT ![s].pc = "rejected"]
  /\ cache' = [t \in (DOMAIN cache) \cup Range(calls[s].invoked[1].arg) |->
                 IF t \in DOMAIN cache THEN cache[t] ELSE <<>>]
  /\ UNCHANGED <<notCache, cacheHits, cacheMisses, provDet, provFn, warm, firstStored,
                 requested, found, computed, fresh>>

\* The wrapped provider failed: the error reaches the caller.
CallReject(s) ==
  /\ calls[s].pc = "await"
  /\ calls' = [calls EXCEPT ![s].pc = "rejected"]
  /\ UNCHANGED <<notCache, cache, cacheHits, cacheMisses, provDet, provFn, warm, firstStored,
                 requested, found, computed, fresh>>

\* The forEach of embedBatch over texts[i..]: hits go to results, misses to
\* uncachedTexts / uncachedIndices. Gives the record after the loop.
RECURSIVE Partition(_, _, _)
Partition(ts, i, acc) ==
  IF i > Len(ts) THEN acc
  ELSE IF Cached(ts[i])
    THEN Partition(ts, i + 1, [acc EXCEPT !.results = Put(acc.results, i, cache[ts[i]]),
                                          !.hits = acc.hits + 1])
    ELSE Partition(ts, i + 1, [acc EXCEPT !.uncachedTexts = Append(acc.uncachedTexts, ts[i]),
                                          !.uncachedIndices = Append(acc.uncachedIndices, i),
                                          !.misses = acc.misses + 1])

\* s in reverse order.
Reverse(s) == [i \in 1..Len(s) |-> s[Len(s) + 1 - i]]

\* The misses are handed to the provider in reverse order.
PartitionOf_Reversed(ts) ==
  LET p == Partition(ts, 1, [results |-> Empty, uncachedTexts |-> <<>>, uncachedIndices |-> <<>>,
                             hits |-> 0, misses |-> 0])
  IN [p EXCEPT !.uncachedTexts = Reverse(p.uncachedTexts)]

PartitionOf(ts) ==
  Partition(ts, 1, [results |-> Empty, uncachedTexts |-> <<>>, uncachedIndices |-> <<>>,
                    hits |-> 0, misses |-> 0])

\* embedBatch(texts), up to its first await.
BatchStart(s, ts) ==
  /\ Free(s)
  /\ cacheHits + cacheMisses + Len(ts) <= MaxLookups
  /\ LET p == PartitionOf(ts) IN
       /\ cacheHits' = cacheHits + p.hits
       /\ cacheMisses' = cacheMisses + p.misses
       /\ IF Len(p.uncachedTexts) > 0
            THEN /\ calls' = [Retire(calls) EXCEPT ![s] =
                      [IdleCall EXCEPT !.op = "embedBatch", !.pc = "await", !.texts = ts,
                          !.results = p.results, !.uncachedTexts = p.uncachedTexts,
                          !.uncachedIndices = p.uncachedIndices,
                          !.invoked = <<[fn |-> "embedBatchUncached", arg |-> p.uncachedTexts]>>]]
                 /\ UNCHANGED <<warm, firstStored>>
            ELSE /\ calls' = [Retire(calls) EXCEPT ![s] =
                      [IdleCall EXCEPT !.op = "embedBatch", !.pc = "resolved", !.texts = ts,
                          !.results = p.results, !.ret = p.results]]
                 /\ warm' = WarmAfter(ts)
                 /\ firstStored' = FirstStoredAfter(ts, cache)
  /\ requested' = requested + Len(ts)
  /\ found' = found + HeldCount(ts)
  /\ computed' = StartedAfter(PartitionOf(ts).uncachedTexts)
  /\ UNCHANGED <<notCache, cache, provDet, provFn, fresh>>

\* The forEach over uncachedResult.embeddings[i..]: cache.set and results[index].
RECURSIVE Insert(_, _, _, _)
Insert(c, es, i, acc) ==
  IF i > Len(es) THEN acc
  ELSE Insert(c, es, i + 1,
         [cache   |-> Put(acc.cache, c.uncachedTexts[i], es[i]),
          results |-> Put(acc.results, c.uncachedIndices[i], es[i]),
          writes  |-> Append(acc.writes, <<c.uncachedTexts[i], es[i]>>)])

\* The i-th computed embedding is stored at index i, not at uncachedIndices[i].
InsertAll_Unmapped(c, es) ==
  Insert([c EXCEPT !.uncachedIndices = [k \in 1..Len(es) |-> k]], es, 1,
         [cache |-> cache, results |-> c.results, writes |-> <<>>])

InsertAll(c, es) == Insert(c, es, 1, [cache |-> cache, results |-> c.results, writes |-> <<>>])

\* The answers embedBatchUncached may give for the texts us: one embedding per text.
BatchOut(us) == {es \in [1..Len(us) -> Emb] : \A i \in 1..Len(us) : es[i] \in ProviderOut(us[i])}

\* embedBatchUncached resolved with es: cache and insert the results, return.
BatchResolve(s, es) ==
  /\ calls[s].op = "embedBatch" /\ calls[s].pc = "await"
  /\ es \in BatchOut(calls[s].uncachedTexts)
  /\ LET r == InsertAll(calls[s], es) IN
       /\ cache' = r.cache
       /\ calls' = [calls EXCEPT ![s].pc = "resolved", ![s].results = r.results,
                                 ![s].ret = r.results, ![s].writes = r.writes]
       /\ warm' = WarmAfter(calls[s].texts)
       /\ firstStored' = FirstStoredAfter(calls[s].texts, cache')
       /\ fresh' = IF calls[s].stale THEN fresh ELSE fresh \cup Range(calls[s].uncachedTexts)
  /\ UNCHANGED <<notCache, cacheHits, cacheMisses, provDet, provFn, requested, found, computed>>

\* The counters are reset, the Map keeps its entries.
ClearCache_KeepsEntries ==
  /\ cacheHits' = 0
  /\ cacheMisses' = 0
  /\ requested' = 0
  /\ found' = 0
  /\ computed' = [t \in Texts |-> 0]
  /\ fresh' = {}
  /\ calls' = Overtaken(calls)
  /\ UNCHANGED <<notCache, cache, warm, firstStored, provDet, provFn>>

\* The Map is emptied, the counters are kept.
ClearCache_KeepsCounters ==
  /\ cache' = Empty
  /\ warm' = {}
  /\ firstStored' = Empty
  /\ requested' = 0
  /\ found' = 0
  /\ computed' = [t \in Texts |-> 0]
  /\ fresh' = {}
  /\ calls' = Overtaken(calls)
  /\ UNCHANGED <<notCache, cacheHits, cacheMisses, provDet, provFn>>

\* clearCache()
ClearCache ==
  /\ cache' = Empty
  /\ cacheHits' = 0
  /\ cacheMisses' = 0
  /\ warm' = {}
  /\ firstStored' = Empty
  /\ requested' = 0
  /\ found' = 0
  /\ computed' = [t \in Texts |-> 0]
  /\ fresh' = {}
  /\ calls' = Overtaken(calls)
  /\ UNCHANGED <<notCache, provDet, provFn>>

\* getMetrics().cacheHitRate: the quotient is kept as numerator and denominator.
NoRate == [num |-> 0, den |-> 1]
CacheHitRate ==
  LET total == cacheHits + cacheMisses
  IN IF total > 0 THEN [num |-> cacheHits, den |-> total] ELSE NoRate

\* One call at a time: every call completes before the next operation starts.
NextCachedSeq ==
  \/ \E s \in SeqSlots, t \in Texts : CacheQuiet /\ EmbedStart(s, t)
  \/ \E s \in SeqSlots, ts \in SeqUpTo(Texts, MaxBatch) : CacheQuiet /\ BatchStart(s, ts)
  \/ \E s \in SeqSlots, e \in Emb : EmbedResolve(s, e)
  \/ \E s \in SeqSlots : \E es \in BatchOut(calls[s].uncachedTexts) : BatchResolve(s, es)
  \/ \E s \in SeqSlots : CallReject(s)
  \/ CacheQuiet /\ ClearCache


\* Batches of the callers that overlap.
SharedBatches == SeqUpTo(Texts, 2)

\* Callers of one cached provider whose calls overlap; dispose() of the
\* cached providers runs clearCache().
NextCached ==
  \/ \E s \in Slots, t \in Texts : requested + 1 <= MaxSharedLookups /\ EmbedStart(s, t)
  \/ \E s \in Slots, ts \in SharedBatches :
       requested + Len(ts) <= MaxSharedLookups /\ BatchStart(s, ts)
  \/ \E s \in Slots, e \in Emb : EmbedResolve(s, e)
  \/ \E s \in Slots : \E es \in BatchOut(calls[s].uncachedTexts) : BatchResolve(s, es)
  \/ \E s \in Slots : CallReject(s)
  \/ ClearCache

\* ------------------------------------------------ worker-pool embedBatch
\* The embedding the llama.cpp process prints for text t.
EmbeddingOf(t) == <<"embedding", t>>

Min(a, b) == IF a <= b THEN a ELSE b

\* The configured number is used as it is by both implementations.
EffectiveConcurrency_Raw(impl, cfg) == IF ~cfg.given THEN DefaultConcurrency ELSE cfg.n

\* The concurrency limit embedBatch reads. package: `maxConcurrency || 4`
\* (0 and undefined give 4); service: the constructor's default parameter
\* (only undefined gives 4).
EffectiveConcurrency(impl, cfg) ==
  IF ~cfg.given THEN DefaultConcurrency
  ELSE IF impl = "package" /\ cfg.n = 0 THEN DefaultConcurrency
  ELSE cfg.n

\* One worker per text, whatever the limit.
WorkerCount_Unbounded(mc, n) == n

\* `Array(Math.min(maxConcurrency, texts.length))`
WorkerCount(mc, n) == Min(mc, n)

\* The result is appended in completion order.
StoreResult_Push(res, item, r) == Put(res, ArrayLength(res) + 1, r)

\* `results[item.index] = result`
StoreResult(res, item, r) == Put(res, item.index, r)

InitPool ==
  /\ poolImpl \in {"package", "service"}
  /\ poolCfg \in {[given |-> FALSE, n |-> 0]} \cup {[given |-> TRUE, n |-> k] : k \in 0..MaxConc}
  /\ poolTexts = <<>>
  /\ poolPhase = "idle"
  /\ queue = <<>>
  /\ poolResults = Empty
  /\ workers = <<>>
  /\ delivered = Empty
  /\ outstanding = 0
  /\ started = <<>>
  /\ takenBy = <<>>
  /\ failedIdx = {}

\* The pool's mutable state as one record, for the steps below.
PoolState ==
  [queue |-> queue, results |-> poolResults, workers |-> workers,
   outstanding |-> outstanding, started |-> started, takenBy |-> takenBy]

\* Worker w at the head of its loop: `while (queue.length > 0)` takes the
\* first item and calls embed (the await); otherwise the worker returns.
WorkerLoop(st, w) ==
  IF Len(st.queue) > 0
    THEN LET item == Head(st.queue) IN
      [st EXCEPT !.queue = Tail(st.queue),
                 !.workers = Put(st.workers, w, [pc |-> "await", item |-> item]),
                 !.outstanding = st.outstanding + 1,
                 !.started = [st.started EXCEPT ![item.index] = @ + 1],
                 !.takenBy = [st.takenBy EXCEPT ![item.index] = @ \cup {w}]]
    ELSE [st EXCEPT !.workers = Put(st.workers, w, [pc |-> "done", item |-> [text |-> <<>>, index |-> 0]])]

\* `.map(async () => {...})` over the worker array: each worker runs to its
\* first await before the next is created.
RECURSIVE SpawnWorkers(_, _, _)
SpawnWorkers(st, w, count) ==
  IF w > count THEN st ELSE SpawnWorkers(WorkerLoop(st, w), w + 1, count)

\* Fulfilled as soon as one worker has returned.
AllDone_Any(ws) == \E w \in DOMAIN ws : ws[w].pc = "done"

\* Promise.all(workers): fulfilled when every worker has returned.
AllDone(ws) == \A w \in DOMAIN ws : ws[w].pc = "done"

SetPool(st) ==
  /\ queue' = st.queue
  /\ poolResults' = st.results
  /\ workers' = st.workers
  /\ outstanding' = st.outstanding
  /\ started' = st.started
  /\ takenBy' = st.takenBy

\* embedBatch resolves with the results once Promise.all is fulfilled; a
\* rejected call stays rejected.
Settle(st) ==
  IF poolPhase' = "resolved" THEN delivered' = st.results ELSE delivered' = delivered

\* embedBatch(texts) up to its await of Promise.all.
PoolBatchStart(ts) ==
  /\ poolPhase = "idle"
  /\ LET n  == Len(ts)
         st == SpawnWorkers(
                 [queue |-> [i \in 1..n |-> [text |-> ts[i], index |-> i]],
                  results |-> Empty, workers |-> <<>>, outstanding |-> 0,
                  started |-> [i \in 1..n |-> 0], takenBy |-> [i \in 1..n |-> {}]],
                 1, WorkerCount(EffectiveConcurrency(poolImpl, poolCfg), n))
     IN /\ poolTexts' = ts
        /\ SetPool(st)
        /\ poolPhase' = IF AllDone(st.workers) THEN "resolved" ELSE "running"
        /\ Settle(st)
  /\ UNCHANGED <<notPool, poolImpl, poolCfg, failedIdx>>

\* The embed call of worker w resolved: store the result, loop.
PoolEmbedResolve(w) ==
  /\ w \in DOMAIN workers /\ workers[w].pc = "await"
  /\ LET item == workers[w].item
         st   == WorkerLoop([PoolState EXCEPT
                    !.results = StoreResult(poolResults, item, EmbeddingOf(item.text)),
                    !.outstanding = outstanding - 1], w)
     IN /\ SetPool(st)
        /\ poolPhase' = IF poolPhase = "running" /\ AllDone(st.workers) THEN "resolved" ELSE poolPhase
        /\ Settle(st)
  /\ UNCHANGED <<notPool, poolImpl, poolCfg, poolTexts, failedIdx>>

\* A worker's rejection is not passed on to the caller.
PromiseAllOnReject_Ignored(phase) == phase

\* `await Promise.all(workers)` when a worker's promise rejects: the pending
\* embedBatch rejects; an embedBatch that has rejected stays so.
PromiseAllOnReject(phase) == IF phase = "running" THEN "rejected" ELSE phase

\* The embed call of worker w rejected (non-zero exit code, unparsable
\* output, timeout): the worker's promise rejects, and with it Promise.all.
PoolEmbedReject(w) ==
  /\ w \in DOMAIN workers /\ workers[w].pc = "await"
  /\ workers' = [workers EXCEPT ![w].pc = "failed"]
  /\ outstanding' = outstanding - 1
  /\ failedIdx' = failedIdx \cup {workers[w].item.index}
  /\ poolPhase' = PromiseAllOnReject(poolPhase)
  /\ UNCHANGED <<notPool, poolImpl, poolCfg, poolTexts, queue, poolResults, delivered, started, takenBy>>

NextPool ==
  \/ \E ts \in SeqUpTo(Texts, MaxPoolBatch) : PoolBatchStart(ts)
  \/ \E w \in DOMAIN workers : PoolEmbedResolve(w)
  \/ \E w \in DOMAIN workers : PoolEmbedReject(w)

\* --------------------------------- providers, lifecycle, EmbeddingFactory
\* The providers createService has a case for.
Providers == {"mock", "openai", "candle", "llama", "onnx", "transformers"}
\* The providers a config can name: 'cohere' is an EmbeddingProvider of
\* types.ts that createService has no case for.
RequestedProviders == Providers \cup {"cohere"}
\* The options that matter here: with or without the credential.
Options == {[apiKey |-> FALSE], [apiKey |-> TRUE]}
\* The configs callers pass: every provider without options, and the mock and
\* the remote provider also with a credential.
Configs ==
  [provider : RequestedProviders, options : {[apiKey |-> FALSE]}]
    \cup [provider : {"mock", "openai"}, options : {[apiKey |-> TRUE]}]

\* JSON.stringify(config.options || {})
Stringify(o) == IF o.apiKey THEN "{\"apiKey\":\"k\"}" ELSE "{}"

\* `${config.provider}-${JSON.stringify(config.options || {})}`
KeyOf(cfg) == <<cfg.provider, "-", Stringify(cfg.options)>>

\* The providers that extend CachedEmbeddingService.
CachedKinds == {"openai", "onnx", "transformers"}

\* `new XEmbeddingService(options)`: nothing is loaded yet.
NewInstance(cfg, origin) ==
  [kind |-> cfg.provider, apiKey |-> cfg.options.apiKey, origin |-> origin,
   handle |-> FALSE,       \* ready / client / session / pipeline
   cacheWarm |-> FALSE,    \* the probe text is in the instance's cache
   init |-> "none",        \* the latest initialize(): none, pending, ok, failed
   disp |-> "none",        \* the latest dispose(): none, pending, ok, failed
   escaped |-> FALSE,      \* a client holds a reference to it
   life |-> "Uninitialized", \* history: Uninitialized, Initializing, Ready, Disposed
   live |-> FALSE,         \* history: initialize() has resolved, no dispose() has since
   byDisposeAll |-> FALSE] \* history: the latest disposeAll() called dispose() on it

\* initialize(), up to its first await. mock sets ready at once; openai
\* throws without a credential; the others await a process or an import.
InitializeCall(inst) ==
  CASE inst.kind = "mock" ->
         [inst EXCEPT !.handle = TRUE, !.init = "ok", !.live = TRUE,
                      !.life = IF @ \in {"Uninitialized", "Initializing"} THEN "Ready" ELSE @]
    [] inst.kind = "openai" /\ ~inst.apiKey -> [inst EXCEPT !.init = "failed"]
    [] OTHER ->
         [inst EXCEPT !.init = "pending",
                      !.life = IF @ = "Uninitialized" THEN "Initializing" ELSE @]

\* The awaited part of initialize() ended: the handle is set, or it threw.
InitializeSettle(inst, ok) ==
  IF ok
    THEN [inst EXCEPT !.handle = TRUE, !.init = "ok", !.live = TRUE,
                      !.life = IF @ = "Initializing" THEN "Ready" ELSE @]
    ELSE [inst EXCEPT !.init = "failed",
                      !.life = IF @ = "Initializing" THEN "Uninitialized" ELSE @]

\* dispose() of the providers with a `ready` flag leaves the flag set.
DisposeCall_KeepsReady(inst, who) ==
  LET d == [inst EXCEPT !.byDisposeAll = @ \/ (who = "disposeAll")] IN
  CASE inst.kind \in {"mock", "candle", "llama"} ->
         [d EXCEPT !.disp = "ok", !.life = "Disposed", !.live = FALSE]
    [] inst.kind = "openai" ->
         [d EXCEPT !.handle = FALSE, !.cacheWarm = FALSE, !.disp = "ok",
                   !.life = "Disposed", !.live = FALSE]
    [] OTHER ->
         IF inst.handle
           THEN [d EXCEPT !.disp = "pending"]
           ELSE [d EXCEPT !.cacheWarm = FALSE, !.disp = "ok", !.life = "Disposed", !.live = FALSE]

\* dispose(), up to its first await. onnx and transformers await the release
\* of a loaded session / pipeline; the cached providers clear their cache.
DisposeCall(inst, who) ==
  LET d == [inst EXCEPT !.byDisposeAll = @ \/ (who = "disposeAll")] IN
  CASE inst.kind \in {"mock", "candle", "llama"} ->
         [d EXCEPT !.handle = FALSE, !.disp = "ok", !.life = "Disposed", !.live = FALSE]
    [] inst.kind = "openai" ->
         [d EXCEPT !.handle = FALSE, !.cacheWarm = FALSE, !.disp = "ok",
                   !.life = "Disposed", !.live = FALSE]
    [] OTHER ->
         IF inst.handle
           THEN [d EXCEPT !.disp = "pending"]
           ELSE [d EXCEPT !.cacheWarm = FALSE, !.disp = "ok", !.life = "Disposed", !.live = FALSE]

\* The awaited release ended: the handle is dropped and the cache cleared, or
\* the release threw and dispose() rejects before either.
DisposeSettle(inst, ok) ==
  IF ok
    THEN [inst EXCEPT !.handle = FALSE, !.cacheWarm = FALSE, !.disp = "ok",
                      !.life = "Disposed", !.live = FALSE]
    ELSE [inst EXCEPT !.disp = "failed"]

\* Every instance reports ready.
IsReady_Always(inst) == TRUE

\* isReady(): `this.ready`, `!!this.client`, `!!this.session`, `!!this.pipeline`
IsReady(inst) == inst.handle

\* The cached providers embed without looking at their handle.
EmbedOutcomes_Unchecked(inst) ==
  IF inst.kind = "mock" THEN {[outcome |-> "embedding", hit |-> FALSE]}
  ELSE IF inst.kind \in CachedKinds /\ inst.cacheWarm THEN {[outcome |-> "embedding", hit |-> TRUE]}
  ELSE {[outcome |-> "embedding", hit |-> FALSE], [outcome |-> "error", hit |-> FALSE]}

\* How embed(text) / embedBatch([text]) on the instance can end. mock computes
\* the embedding itself; candle and llama run their process whatever `ready`
\* is; the cached providers answer a cached text from the cache and otherwise
\* need their client / session / pipeline.
EmbedOutcomes(inst) ==
  CASE inst.kind = "mock" -> {[outcome |-> "embedding", hit |-> FALSE]}
    [] inst.kind \in {"candle", "llama"} ->
         {[outcome |-> "embedding", hit |-> FALSE], [outcome |-> "error", hit |-> FALSE]}
    [] OTHER ->
         IF inst.cacheWarm THEN {[outcome |-> "embedding", hit |-> TRUE]}
         ELSE IF ~inst.handle THEN {[outcome |-> "error", hit |-> FALSE]}
         ELSE {[outcome |-> "embedding", hit |-> FALSE], [outcome |-> "error", hit |-> FALSE]}

IdleOp ==
  [op |-> "none", pc |-> "idle", cfg |-> [provider |-> "mock", options |-> [apiKey |-> FALSE]],
   seen |-> 0, ready |-> FALSE, made |-> 0, ret |-> 0, ok |-> FALSE, targets |-> {},
   nBefore |-> 0, regBefore |-> Empty]

\* embedLog is kept until the next operation only.
NoEmbed == [inst |-> 0, fn |-> "none", outcome |-> "none", hit |-> FALSE]

InitFactory ==
  /\ instances = Empty
  /\ insts = <<>>
  /\ fops = [p \in Procs |-> IdleOp]
  /\ embedLog = NoEmbed

FSettled(p) == fops[p].pc \in {"idle", "resolved", "rejected"}

\* A settled operation's record is dropped when the next one starts.
RetireOps(fs) == [x \in Procs |-> IF fs[x].pc \in {"resolved", "rejected"} THEN IdleOp ELSE fs[x]]

\* No factory operation, initialize() or dispose() is in progress.
FQuiet ==
  /\ \A p \in Procs : FSettled(p)
  /\ \A i \in DOMAIN insts : insts[i].init # "pending" /\ insts[i].disp # "pending"

\* The instance, with the outcome of a settled initialize() / dispose() taken
\* by the one that awaited it.
Taken(inst) ==
  [inst EXCEPT !.init = IF @ = "pending" THEN @ ELSE "none",
               !.disp = IF @ = "pending" THEN @ ELSE "none"]

\* A factory operation awaits instance i.
Awaited(i) ==
  \E p \in Procs : fops[p].pc \in {"awaitInit", "awaitDispose"}
                   /\ (fops[p].made = i \/ i \in fops[p].targets)

\* A client's own await takes the outcome at once.
Unawaited(i, inst) == IF Awaited(i) THEN inst ELSE Taken(inst)

\* The record of an operation that starts now.
OpStart(name, cfg) ==
  [IdleOp EXCEPT !.op = name, !.cfg = cfg, !.nBefore = Len(insts), !.regBefore = instances]

\* `service = this.createService(config); await service.initialize()`, up to
\* the await: an unknown provider throws, otherwise the object is constructed
\* and its initialize() called.
Build(fs, p, rec, origin) ==
  IF rec.cfg.provider \notin Providers
    THEN /\ fops' = [fs EXCEPT ![p] = [rec EXCEPT !.pc = "rejected"]]
         /\ insts' = insts
    ELSE /\ Len(insts) < MaxInst
         /\ insts' = Append(insts, InitializeCall(NewInstance(rec.cfg, origin)))
         /\ fops' = [fs EXCEPT ![p] = [rec EXCEPT !.pc = "awaitInit", !.made = Len(insts) + 1]]

\* create(config), up to its first await: the registry lookup, then either
\* `await service.isReady()` or the construction.
CreateStart(p, cfg) ==
  /\ FSettled(p)
  /\ LET key  == KeyOf(cfg)
         seen == IF key \in DOMAIN instances THEN instances[key] ELSE 0
         rec  == [OpStart("create", cfg) EXCEPT !.seen = seen]
     IN IF seen # 0
          THEN /\ IsReady(insts[seen]) \/ Len(insts) < MaxInst
               /\ fops' = [RetireOps(fops) EXCEPT ![p] =
                             [rec EXCEPT !.pc = "awaitReady", !.ready = IsReady(insts[seen])]]
               /\ insts' = insts
          ELSE Build(RetireOps(fops), p, rec, "create")
  /\ embedLog' = NoEmbed /\ UNCHANGED <<instances, notFactory>>

\* create after `await service.isReady()`: return the registered instance, or
\* construct a new one.
CreateReadyDone(p) ==
  /\ fops[p].op = "create" /\ fops[p].pc = "awaitReady"
  /\ IF fops[p].ready
       THEN /\ fops' = [fops EXCEPT ![p].pc = "resolved", ![p].ret = fops[p].seen]
            /\ insts' = [insts EXCEPT ![fops[p].seen].escaped = TRUE]
       ELSE Build(fops, p, fops[p], "create")
  /\ embedLog' = NoEmbed /\ UNCHANGED <<instances, notFactory>>

\* The instance is not put into the registry.
Register_Nothing(reg, key, id) == reg

\* `this.instances.set(key, service)`
Register(reg, key, id) == Put(reg, key, id)

\* create registers the instance it made before it looks at the outcome of
\* initialize().
CreateInitDone_RegistersFirst(p) ==
  /\ fops[p].op = "create" /\ fops[p].pc = "awaitInit"
  /\ LET i == fops[p].made IN
       /\ instances' = Register(instances, KeyOf(fops[p].cfg), i)
       /\ \/ /\ insts[i].init = "ok"
             /\ fops' = [fops EXCEPT ![p].pc = "resolved", ![p].ret = i]
             /\ insts' = [insts EXCEPT ![i] = [Taken(insts[i]) EXCEPT !.escaped = TRUE]]
          \/ /\ insts[i].init = "failed"
             /\ fops' = [fops EXCEPT ![p].pc = "rejected"]
             /\ insts' = [insts EXCEPT ![i] = Taken(insts[i])]
  /\ embedLog' = NoEmbed /\ UNCHANGED notFactory

\* create after `await service.initialize()`: register and return, or reject.
CreateInitDone(p) ==
  /\ fops[p].op = "create" /\ fops[p].pc = "awaitInit"
  /\ LET i == fops[p].made IN
       \/ /\ insts[i].init = "ok"
          /\ instances' = Register(instances, KeyOf(fops[p].cfg), i)
          /\ fops' = [fops EXCEPT ![p].pc = "resolved", ![p].ret = i]
          /\ insts' = [insts EXCEPT ![i] = [Taken(insts[i]) EXCEPT !.escaped = TRUE]]
       \/ /\ insts[i].init = "failed"
          /\ fops' = [fops EXCEPT ![p].pc = "rejected"]
          /\ insts' = [insts EXCEPT ![i] = Taken(insts[i])]
          /\ instances' = instances
  /\ embedLog' = NoEmbed /\ UNCHANGED notFactory

\* createNew(config), up to its await.
CreateNewStart(p, cfg) ==
  /\ FSettled(p)
  /\ Build(RetireOps(fops), p, OpStart("createNew", cfg), "createNew")
  /\ embedLog' = NoEmbed /\ UNCHANGED <<instances, notFactory>>

\* createNew registers the instance it made, as create does.
CreateNewInitDone_Registers(p) ==
  /\ fops[p].op = "createNew" /\ fops[p].pc = "awaitInit"
  /\ LET i == fops[p].made IN
       \/ /\ insts[i].init = "ok"
          /\ instances' = Register(instances, KeyOf(fops[p].cfg), i)
          /\ fops' = [fops EXCEPT ![p].pc = "resolved", ![p].ret = i]
          /\ insts' = [insts EXCEPT ![i] = [Taken(insts[i]) EXCEPT !.escaped = TRUE]]
       \/ /\ insts[i].init = "failed"
          /\ fops' = [fops EXCEPT ![p].pc = "rejected"]
          /\ insts' = [insts EXCEPT ![i] = Taken(insts[i])]
          /\ instances' = instances
  /\ embedLog' = NoEmbed /\ UNCHANGED notFactory

\* createNew after `await service.initialize()`: return the instance, or reject.
CreateNewInitDone(p) ==
  /\ fops[p].op = "createNew" /\ fops[p].pc = "awaitInit"
  /\ LET i == fops[p].made IN
       \/ /\ insts[i].init = "ok"
          /\ fops' = [fops EXCEPT ![p].pc = "resolved", ![p].ret = i]
          /\ insts' = [insts EXCEPT ![i] = [Taken(insts[i]) EXCEPT !.escaped = TRUE]]
       \/ /\ insts[i].init = "failed"
          /\ fops' = [fops EXCEPT ![p].pc = "rejected"]
          /\ insts' = [insts EXCEPT ![i] = Taken(insts[i])]
  /\ embedLog' = NoEmbed /\ UNCHANGED <<instances, notFactory>>

\* isProviderAvailable(provider), up to its first await: createNew({provider});
\* a throw of createService is caught and answered with false.
ProbeStart(p, provider) ==
  /\ FSettled(p)
  /\ LET rec == OpStart("isProviderAvailable", [provider |-> provider, options |-> [apiKey |-> FALSE]])
     IN IF provider \notin Providers
          THEN /\ fops' = [RetireOps(fops) EXCEPT ![p] = [rec EXCEPT !.pc = "resolved", !.ok = FALSE]]
               /\ insts' = insts
          ELSE Build(RetireOps(fops), p, rec, "createNew")
  /\ embedLog' = NoEmbed /\ UNCHANGED <<instances, notFactory>>

\* isProviderAvailable after createNew: read isReady(), call dispose(); a
\* failed initialize() is caught and answered with false.
ProbeInitDone(p) ==
  /\ fops[p].op = "isProviderAvailable" /\ fops[p].pc = "awaitInit"
  /\ LET i == fops[p].made IN
       \/ /\ insts[i].init = "ok"
          /\ fops' = [fops EXCEPT ![p].pc = "awaitDispose", ![p].ready = IsReady(insts[i])]
          /\ insts' = [insts EXCEPT ![i] = DisposeCall(Taken(insts[i]), "isProviderAvailable")]
       \/ /\ insts[i].init = "failed"
          /\ fops' = [fops EXCEPT ![p].pc = "resolved", ![p].ok = FALSE]
          /\ insts' = [insts EXCEPT ![i] = Taken(insts[i])]
  /\ embedLog' = NoEmbed /\ UNCHANGED <<instances, notFactory>>

\* isProviderAvailable after `await service.dispose()`.
ProbeDisposeDone(p) ==
  /\ fops[p].op = "isProviderAvailable" /\ fops[p].pc = "awaitDispose"
  /\ LET i == fops[p].made IN
       /\ \/ /\ insts[i].disp = "ok"
             /\ fops' = [fops EXCEPT ![p].pc = "resolved", ![p].ok = fops[p].ready]
          \/ /\ insts[i].disp = "failed"
             /\ fops' = [fops EXCEPT ![p].pc = "resolved", ![p].ok = FALSE]
       /\ insts' = [insts EXCEPT ![i] = Taken(insts[i])]
  /\ embedLog' = NoEmbed /\ UNCHANGED <<instances, notFactory>>

\* disposeAll(), up to its await: dispose() is called on every registered
\* instance.
DisposeAllStart(p) ==
  /\ FSettled(p)
  /\ LET targets == Range(instances) IN
       /\ fops' = [RetireOps(fops) EXCEPT ![p] =
                     [OpStart("disposeAll", IdleOp.cfg) EXCEPT !.pc = "awaitDispose", !.targets = targets]]
       /\ insts' = [i \in DOMAIN insts |->
                      IF i \in targets
                        THEN DisposeCall(insts[i], "disposeAll")
                        ELSE [insts[i] EXCEPT !.byDisposeAll = FALSE]]
  /\ embedLog' = NoEmbed /\ UNCHANGED <<instances, notFactory>>

\* The registry is left as it is.
Cleared_Kept(reg) == reg

\* `this.instances.clear()`
Cleared(reg) == Empty

\* disposeAll clears the registry without awaiting the dispose() calls.
DisposeAllDone_Early(p) ==
  /\ fops[p].op = "disposeAll" /\ fops[p].pc = "awaitDispose"
  /\ instances' = Cleared(instances)
  /\ fops' = [fops EXCEPT ![p].pc = "resolved"]
  /\ insts' = insts
  /\ embedLog' = NoEmbed /\ UNCHANGED notFactory

\* disposeAll after `await Promise.all(promises)`: clear the registry; if a
\* dispose() rejected, Promise.all rejects and nothing is cleared.
DisposeAllDone(p) ==
  /\ fops[p].op = "disposeAll" /\ fops[p].pc = "awaitDispose"
  /\ \/ /\ \A i \in fops[p].targets : insts[i].disp = "ok"
        /\ instances' = Cleared(instances)
        /\ fops' = [fops EXCEPT ![p].pc = "resolved"]
     \/ /\ \E i \in fops[p].targets : insts[i].disp = "failed"
        /\ fops' = [fops EXCEPT ![p].pc = "rejected"]
        /\ instances' = instances
  /\ insts' = [i \in DOMAIN insts |-> IF i \in fops[p].targets THEN Taken(insts[i]) ELSE insts[i]]
  /\ embedLog' = NoEmbed /\ UNCHANGED notFactory

\* The awaited part of a pending initialize() ends.
InstInitSettle(i, ok) ==
  /\ insts[i].init = "pending"
  /\ insts' = [insts EXCEPT ![i] = Unawaited(i, InitializeSettle(insts[i], ok))]
  /\ embedLog' = NoEmbed /\ UNCHANGED <<instances, fops, notFactory>>

\* The awaited part of a pending dispose() ends.
InstDisposeSettle(i, ok) ==
  /\ insts[i].disp = "pending"
  /\ insts' = [insts EXCEPT ![i] = Unawaited(i, DisposeSettle(insts[i], ok))]
  /\ embedLog' = NoEmbed /\ UNCHANGED <<instances, fops, notFactory>>

\* A client constructs a provider itself: `new XEmbeddingService(options)`.
ClientConstruct(cfg) ==
  /\ cfg.provider \in Providers
  /\ Len(insts) < MaxInst
  /\ insts' = Append(insts, [NewInstance(cfg, "client") EXCEPT !.escaped = TRUE])
  /\ fops' = RetireOps(fops) /\ embedLog' = NoEmbed /\ UNCHANGED <<instances, notFactory>>

\* A client calls initialize() on an instance it holds.
ClientInitialize(i) ==
  /\ insts[i].escaped /\ insts[i].init # "pending" /\ insts[i].disp # "pending"
  /\ insts' = [insts EXCEPT ![i] = Taken(InitializeCall(insts[i]))]
  /\ fops' = RetireOps(fops) /\ embedLog' = NoEmbed /\ UNCHANGED <<instances, notFactory>>

\* A client calls dispose() on an instance it holds.
ClientDispose(i) ==
  /\ insts[i].escaped /\ insts[i].init # "pending" /\ insts[i].disp # "pending"
  /\ insts' = [insts EXCEPT ![i] = Taken(DisposeCall(insts[i], "client"))]
  /\ fops' = RetireOps(fops) /\ embedLog' = NoEmbed /\ UNCHANGED <<instances, notFactory>>

\* A client calls embed(text) or embedBatch([text]) on an instance it holds,
\* and the call settles.
ClientEmbed(i, fn) ==
  /\ insts[i].escaped
  /\ \E o \in EmbedOutcomes(insts[i]) :
       /\ embedLog' = [inst |-> i, fn |-> fn, outcome |-> o.outcome, hit |-> o.hit]
       /\ insts' = [insts EXCEPT ![i].cacheWarm =
                      @ \/ (insts[i].kind \in CachedKinds /\ o.outcome = "embedding")]
  /\ fops' = RetireOps(fops)
  /\ UNCHANGED <<instances, notFactory>>

\* One operation at a time: each factory or client call settles before the
\* next starts.
NextFactorySeq ==
  \/ \E p \in SeqProcs, cfg \in Configs : FQuiet /\ CreateStart(p, cfg)
  \/ \E p \in SeqProcs : CreateReadyDone(p)
  \/ \E p \in SeqProcs : CreateInitDone(p)
  \/ \E p \in SeqProcs, cfg \in Configs : FQuiet /\ CreateNewStart(p, cfg)
  \/ \E p \in SeqProcs : CreateNewInitDone(p)
  \/ \E p \in SeqProcs, k \in RequestedProviders : FQuiet /\ ProbeStart(p, k)
  \/ \E p \in SeqProcs : ProbeInitDone(p)
  \/ \E p \in SeqProcs : ProbeDisposeDone(p)
  \/ \E p \in SeqProcs : FQuiet /\ DisposeAllStart(p)
  \/ \E p \in SeqProcs : DisposeAllDone(p)
  \/ \E i \in DOMAIN insts, ok \in BOOLEAN : InstInitSettle(i, ok)
  \/ \E i \in DOMAIN insts, ok \in BOOLEAN : InstDisposeSettle(i, ok)
  \/ \E cfg \in Configs : FQuiet /\ ClientConstruct(cfg)
  \/ \E i \in DOMAIN insts : FQuiet /\ ClientInitialize(i)
  \/ \E i \in DOMAIN insts : FQuiet /\ ClientDispose(i)
  \/ \E i \in DOMAIN insts, fn \in {"embed", "embedBatch"} : FQuiet /\ ClientEmbed(i, fn)

\* The configs of the callers whose factory calls overlap: a provider whose
\* initialize() sets its flag at once and one that awaits.
SharedConfigs == [provider : {"mock", "onnx"}, options : {[apiKey |-> FALSE]}]

\* Two callers of the factory whose create and disposeAll calls overlap.
NextFactory ==
  \/ \E p \in Procs, cfg \in SharedConfigs : CreateStart(p, cfg)
  \/ \E p \in Procs : CreateReadyDone(p)
  \/ \E p \in Procs : CreateInitDone(p)
  \/ \E p \in Procs : DisposeAllStart(p)
  \/ \E p \in Procs : DisposeAllDone(p)
  \/ \E i \in DOMAIN insts, ok \in BOOLEAN : InstInitSettle(i, ok)
  \/ \E i \in DOMAIN insts, ok \in BOOLEAN : InstDisposeSettle(i, ok)

\* ------------------------------------------------------ MemoryDB (in-memory store)
\* `undefined`, for an optional string argument or field that was not given.
Undefined == "undefined"

\* if (x) for a string or undefined: undefined and the empty string are falsy.
Truthy(x) == x \notin {Undefined, ""}

\* An optional number or array: given or not. An array that is given is
\* truthy, the empty one too.
Some(x) == [given |-> TRUE, v |-> x]
NoNumber == [given |-> FALSE, v |-> 0]
NoVector == [given |-> FALSE, v |-> <<>>]

\* A default parameter value (`limit = 10`): used when the argument is undefined.
OrDefault(opt, d) == IF opt.given THEN opt.v ELSE d

\* Array.prototype.slice(from, to) on an array of length n (0-based bounds,
\* a negative bound counts from the end), as the 1-based subsequence.
SliceBound(b, n) == IF b < 0 THEN (IF n + b < 0 THEN 0 ELSE n + b) ELSE Min(b, n)
Slice(s, from, to) == SubSeq(s, SliceBound(from, Len(s)) + 1, SliceBound(to, Len(s)))

\* Map.delete(key) on a Map kept as the sequence of its values in insertion
\* order; Map.get(key) || null.
HasId(tbl, id) == \E i \in 1..Len(tbl) : tbl[i].id = id
WithoutId(tbl, id) == LET Keep(r) == r.id # id IN SelectSeq(tbl, Keep)
\* The key is never found.
GetOrNull_Null(tbl, id) == <<>>

\* The result is the sequence of the one value found: empty stands for null.
GetOrNull(tbl, id) == LET Is(r) == r.id = id IN SelectSeq(tbl, Is)

\* Sum of the squares / of the products of the components.
RECURSIVE SumSq(_)
SumSq(v) == IF v = <<>> THEN 0 ELSE Head(v) * Head(v) + SumSq(Tail(v))
RECURSIVE Dot(_, _)
Dot(a, b) == IF a = <<>> THEN 0 ELSE Head(a) * Head(b) + Dot(Tail(a), Tail(b))

\* cosineSimilarity(a, b) of the store: throws on different lengths;
\* otherwise dot / (sqrt(normA) * sqrt(normB)), kept as the three integers,
\* which is NaN (0 / 0) when a norm is 0.
CosineSimilarity_Guarded(a, b) ==
  IF Len(a) # Len(b) THEN [kind |-> "throw", dot |-> 0, na |-> 0, nb |-> 0]
  ELSE IF SumSq(a) = 0 \/ SumSq(b) = 0 THEN [kind |-> "num", dot |-> 0, na |-> 1, nb |-> 1]
  ELSE [kind |-> "num", dot |-> Dot(a, b), na |-> SumSq(a), nb |-> SumSq(b)]

CosineSimilarity(a, b) ==
  IF Len(a) # Len(b) THEN [kind |-> "throw", dot |-> 0, na |-> 0, nb |-> 0]
  ELSE IF SumSq(a) = 0 \/ SumSq(b) = 0 THEN [kind |-> "NaN", dot |-> 0, na |-> 0, nb |-> 0]
  ELSE [kind |-> "num", dot |-> Dot(a, b), na |-> SumSq(a), nb |-> SumSq(b)]

\* The sign of x.
Sign(x) == IF x > 0 THEN 1 ELSE IF x < 0 THEN -1 ELSE 0

\* s < t for two numeric scores: dot_s / sqrt(na_s * nb_s) < dot_t / sqrt(na_t * nb_t),
\* decided on the signed squares.
ScoreLess(s, t) ==
  LET ls == Sign(s.dot) * s.dot * s.dot * (t.na * t.nb)
      lt == Sign(t.dot) * t.dot * t.dot * (s.na * s.nb)
  IN ls < lt

\* The sequences that hold the elements of s in some order.
Reorderings(s) ==
  {p \in [1..Len(s) -> Range(s)] :
     \E f \in [1..Len(s) -> 1..Len(s)] :
       /\ \A i, j \in 1..Len(s) : i # j => f[i] # f[j]
       /\ \A i \in 1..Len(s) : p[i] = s[f[i]]}

\* scored.sort((a, b) => b.similarity_score - a.similarity_score). A
\* difference with a NaN score is NaN, which the sort reads as +0: a NaN score
\* compares equal to every score (ScoreLess is false for it both ways). The
\* sort is stable, so while that comparison is consistent the outcome is the
\* one sequence in comparator order that keeps equal elements in their order.
\* When it is not (a NaN score equal to two scores that differ) the order is
\* implementation-defined.
ComparesEqual(s, t) == ~ScoreLess(s, t) /\ ~ScoreLess(t, s)
ConsistentComparator(scored) ==
  \A i, j, k \in 1..Len(scored) :
    (/\ ComparesEqual(scored[i].similarity_score, scored[j].similarity_score)
     /\ ComparesEqual(scored[j].similarity_score, scored[k].similarity_score))
      => ComparesEqual(scored[i].similarity_score, scored[k].similarity_score)
RECURSIVE InsertByScore(_, _)
InsertByScore(sorted, r) ==
  IF sorted = <<>> THEN <<r>>
  ELSE IF ScoreLess(Head(sorted).similarity_score, r.similarity_score)
    THEN <<r>> \o sorted
    ELSE <<Head(sorted)>> \o InsertByScore(Tail(sorted), r)
RECURSIVE StableSortDesc(_)
StableSortDesc(s) ==
  IF s = <<>> THEN <<>>
  ELSE InsertByScore(StableSortDesc(SubSeq(s, 1, Len(s) - 1)), s[Len(s)])
\* The array is left in the order it had.
SortOutcomes_Unsorted(scored) == {scored}

SortOutcomes(scored) ==
  IF ConsistentComparator(scored)
    THEN {StableSortDesc(scored)}
    ELSE Reorderings(scored)

\* `limit = 10` of the searches, `limit = 100, offset = 0` of the listings.
SearchLimitDefault == 10
ListLimitDefault == 100
ListOffsetDefault == 0

\* What the latest store call was and what it returned. list: a returned
\* array (a get returns the array of the value found, empty for null); n: a
\* returned count; ok: a returned boolean; threw: the call threw.
NoArgs == [owner |-> Undefined, project |-> Undefined, id |-> Undefined,
           embedding |-> NoVector, limit |-> NoNumber, offset |-> NoNumber]
NoRet == [op |-> "none", args |-> NoArgs, list |-> <<>>, n |-> 0, ok |-> FALSE, threw |-> FALSE]
Ret(op, args) == [NoRet EXCEPT !.op = op, !.args = args]

InitStore ==
  /\ projects = <<>>
  /\ memories = <<>>
  /\ knowledgeBases = <<>>
  /\ facts = <<>>
  /\ chatSessions = <<>>
  /\ chatMessages = <<>>
  /\ nextId = 1
  /\ storeRet = NoRet

\* uuidv4(): an id no entity has had before.
FreshId == ToString(nextId)

\* createMemory(memory)
CreateMemory(userId, projectId, content, embedding) ==
  /\ nextId <= MaxIds
  /\ LET m == [id |-> FreshId, user_id |-> userId, project_id |-> projectId,
               content |-> content, embedding |-> embedding]
     IN /\ memories' = Append(memories, m)
        /\ storeRet' = [Ret("createMemory", NoArgs) EXCEPT !.list = <<m>>]
  /\ nextId' = nextId + 1
  /\ UNCHANGED <<notStore, projects, knowledgeBases, facts, chatSessions, chatMessages>>

\* createFact(fact)
CreateFact(kbId, content, embedding) ==
  /\ nextId <= MaxIds
  /\ LET f == [id |-> FreshId, kb_id |-> kbId, content |-> content, embedding |-> embedding]
     IN /\ facts' = Append(facts, f)
        /\ storeRet' = [Ret("createFact", NoArgs) EXCEPT !.list = <<f>>]
  /\ nextId' = nextId + 1
  /\ UNCHANGED <<notStore, projects, memories, knowledgeBases, chatSessions, chatMessages>>

\* createChatMessage(message)
CreateChatMessage(sessionId, content, embedding) ==
  /\ nextId <= MaxIds
  /\ LET m == [id |-> FreshId, session_id |-> sessionId, content |-> content,
               embedding |-> embedding]
     IN /\ chatMessages' = Append(chatMessages, m)
        /\ storeRet' = [Ret("createChatMessage", NoArgs) EXCEPT !.list = <<m>>]
  /\ nextId' = nextId + 1
  /\ UNCHANGED <<notStore, projects, memories, knowledgeBases, facts, chatSessions>>

\* A read: the store is left as it is.
StoreRead == UNCHANGED <<notStore, projects, memories, knowledgeBases, facts, chatSessions,
                         chatMessages, nextId>>

\* getMemory(memoryId), getFact(factId), getChatMessage(messageId)
GetMemory(id) ==
  /\ storeRet' = [Ret("getMemory", [NoArgs EXCEPT !.id = id]) EXCEPT !.list = GetOrNull(memories, id)]
  /\ StoreRead
GetFact(id) ==
  /\ storeRet' = [Ret("getFact", [NoArgs EXCEPT !.id = id]) EXCEPT !.list = GetOrNull(facts, id)]
  /\ StoreRead
GetChatMessage(id) ==
  /\ storeRet' = [Ret("getChatMessage", [NoArgs EXCEPT !.id = id]) EXCEPT
                    !.list = GetOrNull(chatMessages, id)]
  /\ StoreRead

\* The memories getUserMemories / searchMemories / deleteUserMemories select:
\* the user's, of the project when a truthy projectId is given.
InMemoryScope(m, userId, projectId) ==
  m.user_id = userId /\ (~Truthy(projectId) \/ m.project_id = projectId)

\* getUserMemories(userId, projectId?, limit = 100, offset = 0)
ListMemories(userId, projectId, limit, offset) ==
  LET In(m) == InMemoryScope(m, userId, projectId)
      off   == OrDefault(offset, ListOffsetDefault)
  IN Slice(SelectSeq(memories, In), off, off + OrDefault(limit, ListLimitDefault))
GetUserMemories(userId, projectId, limit, offset) ==
  /\ storeRet' = [Ret("getUserMemories",
                      [NoArgs EXCEPT !.owner = userId, !.project = projectId,
                                     !.limit = limit, !.offset = offset])
                    EXCEPT !.list = ListMemories(userId, projectId, limit, offset)]
  /\ StoreRead

\* getKnowledgeBaseFacts(kbId, limit = 100, offset = 0)
ListFacts(kbId, limit, offset) ==
  LET In(f) == f.kb_id = kbId
      off   == OrDefault(offset, ListOffsetDefault)
  IN Slice(SelectSeq(facts, In), off, off + OrDefault(limit, ListLimitDefault))
GetKnowledgeBaseFacts(kbId, limit, offset) ==
  /\ storeRet' = [Ret("getKnowledgeBaseFacts",
                      [NoArgs EXCEPT !.owner = kbId, !.limit = limit, !.offset = offset])
                    EXCEPT !.list = ListFacts(kbId, limit, offset)]
  /\ StoreRead

\* getChatMessages(sessionId, limit = 100, offset = 0): the session's
\* messages sorted by created_at (a stable sort: creation order).
ListChatMessages(sessionId, limit, offset) ==
  LET In(m) == m.session_id = sessionId
      off   == OrDefault(offset, ListOffsetDefault)
  IN Slice(SelectSeq(chatMessages, In), off, off + OrDefault(limit, ListLimitDefault))
GetChatMessages(sessionId, limit, offset) ==
  /\ storeRet' = [Ret("getChatMessages",
                      [NoArgs EXCEPT !.owner = sessionId, !.limit = limit, !.offset = offset])
                    EXCEPT !.list = ListChatMessages(sessionId, limit, offset)]
  /\ StoreRead

\* `.map(m => ({...m, similarity_score: cosineSimilarity(embedding, m.embedding)}))`
WithScore(cands, embedding) ==
  [i \in 1..Len(cands) |->
     [entity |-> cands[i], similarity_score |-> CosineSimilarity(embedding, cands[i].embedding.v)]]

\* The tail of a search: score the candidates (cosineSimilarity throws for
\* a candidate of another length), sort, slice(0, limit). Gives the record of
\* every outcome the call can have.
SearchOutcomes(op, args, cands) ==
  LET scored == WithScore(cands, args.embedding.v) IN
    IF \E i \in 1..Len(scored) : scored[i].similarity_score.kind = "throw"
      THEN {[Ret(op, args) EXCEPT !.threw = TRUE]}
      ELSE {[Ret(op, args) EXCEPT !.list = Slice(sorted, 0, OrDefault(args.limit, SearchLimitDefault))] :
              sorted \in SortOutcomes(scored)}

\* searchMemories(userId, _query, embedding, projectId?, limit = 10)
\* Every user's memories are scored.
MemoryCandidates_AnyUser(userId, projectId) ==
  LET First(m)  == m.embedding.given
      Second(m) == ~Truthy(projectId) \/ m.project_id = projectId
  IN SelectSeq(SelectSeq(memories, First), Second)

MemoryCandidates(userId, projectId) ==
  LET First(m)  == m.user_id = userId /\ m.embedding.given
      Second(m) == ~Truthy(projectId) \/ m.project_id = projectId
  IN SelectSeq(SelectSeq(memories, First), Second)
SearchMemories(userId, embedding, projectId, limit) ==
  /\ storeRet' \in SearchOutcomes("searchMemories",
                     [NoArgs EXCEPT !.owner = userId, !.project = projectId,
                                    !.embedding = Some(embedding), !.limit = limit],
                     MemoryCandidates(userId, projectId))
  /\ StoreRead

\* searchFacts(kbId, _query, embedding, limit = 10)
FactCandidates(kbId) == LET In(f) == f.kb_id = kbId /\ f.embedding.given IN SelectSeq(facts, In)
SearchFacts(kbId, embedding, limit) ==
  /\ storeRet' \in SearchOutcomes("searchFacts",
                     [NoArgs EXCEPT !.owner = kbId, !.embedding = Some(embedding), !.limit = limit],
                     FactCandidates(kbId))
  /\ StoreRead

\* searchChatMessages(sessionId, _query, embedding, limit = 10)
MessageCandidates(sessionId) ==
  LET In(m) == m.session_id = sessionId /\ m.embedding.given IN SelectSeq(chatMessages, In)
SearchChatMessages(sessionId, embedding, limit) ==
  /\ storeRet' \in SearchOutcomes("searchChatMessages",
                     [NoArgs EXCEPT !.owner = sessionId, !.embedding = Some(embedding), !.limit = limit],
                     MessageCandidates(sessionId))
  /\ StoreRead

\* deleteMemory(memoryId), deleteFact(factId), deleteChatMessage(messageId):
\* Map.delete answers whether the key was present.
DeleteMemory(id) ==
  /\ memories' = WithoutId(memories, id)
  /\ storeRet' = [Ret("deleteMemory", [NoArgs EXCEPT !.id = id]) EXCEPT !.ok = HasId(memories, id)]
  /\ UNCHANGED <<notStore, projects, knowledgeBases, facts, chatSessions, chatMessages, nextId>>
DeleteFact(id) ==
  /\ facts' = WithoutId(facts, id)
  /\ storeRet' = [Ret("deleteFact", [NoArgs EXCEPT !.id = id]) EXCEPT !.ok = HasId(facts, id)]
  /\ UNCHANGED <<notStore, projects, memories, knowledgeBases, chatSessions, chatMessages, nextId>>
DeleteChatMessage(id) ==
  /\ chatMessages' = WithoutId(chatMessages, id)
  /\ storeRet' = [Ret("deleteChatMessage", [NoArgs EXCEPT !.id = id]) EXCEPT
                    !.ok = HasId(chatMessages, id)]
  /\ UNCHANGED <<notStore, projects, memories, knowledgeBases, facts, chatSessions, nextId>>

\* The entries of a Map.
Entries(tbl) == {tbl[i] : i \in 1..Len(tbl)}

\* The loop of a delete-by-scope over the Map's entries from position i:
\* delete and count the entries the test selects (hits: the entries that pass
\* it). Deleting the current entry of a Map during its iteration does not
\* disturb the iteration.
RECURSIVE DeleteLoop(_, _, _, _)
DeleteLoop(tbl, i, hits, acc) ==
  IF i > Len(tbl) THEN acc
  ELSE IF tbl[i] \in hits
    THEN DeleteLoop(tbl, i + 1, hits, [tbl |-> WithoutId(acc.tbl, tbl[i].id), count |-> acc.count + 1])
    ELSE DeleteLoop(tbl, i + 1, hits, acc)

\* The test of the loop selects no entry.
DeleteWhere_Nothing(tbl, hits) == [tbl |-> tbl, count |-> 0]

DeleteWhere(tbl, hits) == DeleteLoop(tbl, 1, hits, [tbl |-> tbl, count |-> 0])

\* deleteUserMemories(userId, projectId?)
DeleteUserMemories(userId, projectId) ==
  /\ LET hits == {m \in Entries(memories) :
                     m.user_id = userId /\ (~Truthy(projectId) \/ m.project_id = projectId)}
         r == DeleteWhere(memories, hits)
     IN /\ memories' = r.tbl
        /\ storeRet' = [Ret("deleteUserMemories",
                            [NoArgs EXCEPT !.owner = userId, !.project = projectId])
                          EXCEPT !.n = r.count]
  /\ UNCHANGED <<notStore, projects, knowledgeBases, facts, chatSessions, chatMessages, nextId>>

\* deleteKnowledgeBaseFacts(kbId)
DeleteKnowledgeBaseFacts(kbId) ==
  /\ LET hits == {f \in Entries(facts) : f.kb_id = kbId}
         r == DeleteWhere(facts, hits)
     IN /\ facts' = r.tbl
        /\ storeRet' = [Ret("deleteKnowledgeBaseFacts", [NoArgs EXCEPT !.owner = kbId])
                          EXCEPT !.n = r.count]
  /\ UNCHANGED <<notStore, projects, memories, knowledgeBases, chatSessions, chatMessages, nextId>>

\* deleteChatSessionMessages(sessionId)
DeleteChatSessionMessages(sessionId) ==
  /\ LET hits == {m \in Entries(chatMessages) : m.session_id = sessionId}
         r == DeleteWhere(chatMessages, hits)
     IN /\ chatMessages' = r.tbl
        /\ storeRet' = [Ret("deleteChatSessionMessages", [NoArgs EXCEPT !.owner = sessionId])
                          EXCEPT !.n = r.count]
  /\ UNCHANGED <<notStore, projects, memories, knowledgeBases, facts, chatSessions, nextId>>

\* createProject, createKnowledgeBase, createChatSession
CreateProject(userId) ==
  /\ nextId <= MaxIds
  /\ projects' = Append(projects, [id |-> FreshId, user_id |-> userId])
  /\ storeRet' = [Ret("createProject", NoArgs) EXCEPT !.list = <<[id |-> FreshId]>>]
  /\ nextId' = nextId + 1
  /\ UNCHANGED <<notStore, memories, knowledgeBases, facts, chatSessions, chatMessages>>
CreateKnowledgeBase(projectId) ==
  /\ nextId <= MaxIds
  /\ knowledgeBases' = Append(knowledgeBases, [id |-> FreshId, project_id |-> projectId])
  /\ storeRet' = [Ret("createKnowledgeBase", NoArgs) EXCEPT !.list = <<[id |-> FreshId]>>]
  /\ nextId' = nextId + 1
  /\ UNCHANGED <<notStore, projects, memories, facts, chatSessions, chatMessages>>
CreateChatSession(userId, projectId) ==
  /\ nextId <= MaxIds
  /\ chatSessions' = Append(chatSessions, [id |-> FreshId, user_id |-> userId, project_id |-> projectId])
  /\ storeRet' = [Ret("createChatSession", NoArgs) EXCEPT !.list = <<[id |-> FreshId]>>]
  /\ nextId' = nextId + 1
  /\ UNCHANGED <<notStore, projects, memories, knowledgeBases, facts, chatMessages>>

\* The project goes with its memories, knowledge bases and chat sessions.
DeleteProject_Cascade(id) ==
  /\ projects' = WithoutId(projects, id)
  /\ LET Other(x) == x.project_id # id IN
       /\ memories' = SelectSeq(memories, Other)
       /\ knowledgeBases' = SelectSeq(knowledgeBases, Other)
       /\ chatSessions' = SelectSeq(chatSessions, Other)
  /\ storeRet' = [Ret("deleteProject", [NoArgs EXCEPT !.id = id]) EXCEPT !.ok = HasId(projects, id)]
  /\ UNCHANGED <<notStore, facts, chatMessages, nextId>>

\* deleteProject(projectId), deleteKnowledgeBase(kbId), deleteChatSession(sessionId)
DeleteProject(id) ==
  /\ projects' = WithoutId(projects, id)
  /\ storeRet' = [Ret("deleteProject", [NoArgs EXCEPT !.id = id]) EXCEPT !.ok = HasId(projects, id)]
  /\ UNCHANGED <<notStore, memories, knowledgeBases, facts, chatSessions, chatMessages, nextId>>
DeleteKnowledgeBase(id) ==
  /\ knowledgeBases' = WithoutId(knowledgeBases, id)
  /\ storeRet' = [Ret("deleteKnowledgeBase", [NoArgs EXCEPT !.id = id]) EXCEPT
                    !.ok = HasId(knowledgeBases, id)]
  /\ UNCHANGED <<notStore, projects, memories, facts, chatSessions, chatMessages, nextId>>
DeleteChatSession(id) ==
  /\ chatSessions' = WithoutId(chatSessions, id)
  /\ storeRet' = [Ret("deleteChatSession", [NoArgs EXCEPT !.id = id]) EXCEPT
                    !.ok = HasId(chatSessions, id)]
  /\ UNCHANGED <<notStore, projects, memories, knowledgeBases, facts, chatMessages, nextId>>

\* The arguments the store's callers pass.
Users == {"u1", "u2"}
ProjectArgs == {Undefined, "", "1"}
ProjectFields == {Undefined, "1"}
ParentIds == {"1", "2"}
Ids == {ToString(i) : i \in 1..MaxIds}
Contents == {"Ann Lee", "b"}
StoreContents == {"a"}
StoredEmbeddings == {NoVector, Some(<<1, 0>>), Some(<<1, 1>>), Some(<<0, 0>>)}
QueryEmbeddings == {<<1, 0>>, <<1>>}
SearchLimits == {NoNumber, Some(0), Some(1), Some(-1)}

\* The caller has taken the result of its latest call.
Settled == storeRet = NoRet

\* The caller takes the result of a call; the store keeps no record of it.
TakeResult ==
  /\ storeRet # NoRet
  /\ storeRet' = NoRet
  /\ UNCHANGED <<projects, memories, knowledgeBases, facts, chatSessions, chatMessages, nextId>>
  /\ UNCHANGED notStore

\* The entity tables of the in-memory store, one call after another.
NextStore ==
  \/ TakeResult
  \/ \E u \in Users, p \in ProjectFields, c \in StoreContents, e \in StoredEmbeddings :
       Settled /\ CreateMemory(u, p, c, e)
  \/ \E k \in ParentIds, c \in StoreContents, e \in StoredEmbeddings :
       Settled /\ CreateFact(k, c, e)
  \/ \E k \in ParentIds, c \in StoreContents, e \in StoredEmbeddings :
       Settled /\ CreateChatMessage(k, c, e)
  \/ \E id \in Ids : Settled /\ GetMemory(id)
  \/ \E id \in Ids : Settled /\ GetFact(id)
  \/ \E id \in Ids : Settled /\ GetChatMessage(id)
  \/ \E u \in Users, p \in ProjectArgs : Settled /\ GetUserMemories(u, p, NoNumber, NoNumber)
  \/ \E k \in ParentIds : Settled /\ GetKnowledgeBaseFacts(k, NoNumber, NoNumber)
  \/ \E k \in ParentIds : Settled /\ GetChatMessages(k, NoNumber, NoNumber)
  \/ \E u \in Users, q \in QueryEmbeddings, p \in ProjectArgs, l \in SearchLimits :
       Settled /\ SearchMemories(u, q, p, l)
  \/ \E k \in ParentIds, q \in QueryEmbeddings, l \in SearchLimits :
       Settled /\ SearchFacts(k, q, l)
  \/ \E k \in ParentIds, q \in QueryEmbeddings, l \in SearchLimits :
       Settled /\ SearchChatMessages(k, q, l)
  \/ \E id \in Ids : Settled /\ DeleteMemory(id)
  \/ \E id \in Ids : Settled /\ DeleteFact(id)
  \/ \E id \in Ids : Settled /\ DeleteChatMessage(id)
  \/ \E u \in Users, p \in ProjectArgs : Settled /\ DeleteUserMemories(u, p)
  \/ \E k \in ParentIds : Settled /\ DeleteKnowledgeBaseFacts(k)
  \/ \E k \in ParentIds : Settled /\ DeleteChatSessionMessages(k)

\* The store's searches over embeddings of two lengths, one call after another.
MixedEmbeddings == {NoVector, Some(<<1>>), Some(<<1, 0>>)}
NextStoreSearch ==
  \/ TakeResult
  \/ \E u \in Users, p \in ProjectFields, e \in MixedEmbeddings :
       Settled /\ CreateMemory(u, p, "a", e)
  \/ \E k \in ParentIds, e \in MixedEmbeddings : Settled /\ CreateFact(k, "a", e)
  \/ \E k \in ParentIds, e \in MixedEmbeddings : Settled /\ CreateChatMessage(k, "a", e)
  \/ \E u \in Users, q \in QueryEmbeddings, p \in ProjectArgs :
       Settled /\ SearchMemories(u, q, p, NoNumber)
  \/ \E k \in ParentIds, q \in QueryEmbeddings : Settled /\ SearchFacts(k, q, NoNumber)
  \/ \E k \in ParentIds, q \in QueryEmbeddings : Settled /\ SearchChatMessages(k, q, NoNumber)

\* The store's parents (projects, knowledge bases, chat sessions) and the
\* children that name them, one call after another.
NextStoreParents ==
  \/ TakeResult
  \/ \E u \in Users : Settled /\ CreateProject(u)
  \/ \E p \in ProjectFields : Settled /\ CreateKnowledgeBase(p)
  \/ \E p \in ProjectFields : Settled /\ CreateChatSession("u1", p)
  \/ \E id \in Ids : Settled /\ DeleteProject(id)
  \/ \E id \in Ids : Settled /\ DeleteKnowledgeBase(id)
  \/ \E id \in Ids : Settled /\ DeleteChatSession(id)
  \/ \E p \in ProjectFields : Settled /\ CreateMemory("u1", p, "a", Some(<<1, 0>>))
  \/ \E k \in ParentIds : Settled /\ CreateFact(k, "a", Some(<<1, 0>>))
  \/ \E k \in ParentIds : Settled /\ CreateChatMessage(k, "a", Some(<<1, 0>>))
  \/ \E id \in Ids : Settled /\ GetMemory(id)
  \/ \E id \in Ids : Settled /\ GetFact(id)
  \/ \E id \in Ids : Settled /\ GetChatMessage(id)
  \/ \E p \in ProjectFields : Settled /\ GetUserMemories("u1", p, NoNumber, NoNumber)
  \/ \E k \in ParentIds : Settled /\ GetKnowledgeBaseFacts(k, NoNumber, NoNumber)
  \/ \E k \in ParentIds : Settled /\ GetChatMessages(k, NoNumber, NoNumber)
  \/ \E p \in ProjectFields : Settled /\ SearchMemories("u1", <<1, 0>>, p, NoNumber)
  \/ \E k \in ParentIds : Settled /\ SearchFacts(k, <<1, 0>>, NoNumber)
  \/ \E k \in ParentIds : Settled /\ SearchChatMessages(k, <<1, 0>>, NoNumber)
  \/ \E id \in Ids : Settled /\ DeleteMemory(id)
  \/ \E id \in Ids : Settled /\ DeleteFact(id)
  \/ \E id \in Ids : Settled /\ DeleteChatMessage(id)
  \/ \E p \in ProjectFields : Settled /\ DeleteUserMemories("u1", p)
  \/ \E k \in ParentIds : Settled /\ DeleteKnowledgeBaseFacts(k)
  \/ \E k \in ParentIds : Settled /\ DeleteChatSessionMessages(k)

\* ------------------------------------------------------- the LanceDB store
\* LanceDBClient keeps its rows in tables of the database; every method awaits
\* the table's operations, so the methods of two callers interleave at each
\* await. A table operation (add, query, delete) is one step of the database.
LanceTables == {"memories", "facts", "chat_messages"}
LanceOwners == {"1", "2"}

\* The row createTable is given as the table's first row: its owner column is
\* 'dummy', and the delete that follows (`memory_id = "dummy"`) matches no row.
BootstrapRow == [id |-> 0, owner |-> "dummy", project |-> ""]

IdleScopeDelete ==
  [pc |-> "idle", table |-> "", owner |-> "", project |-> Undefined,
   toDelete |-> <<>>, removed |-> <<>>, ret |-> 0]

InitLance ==
  /\ lanceRows = [t \in LanceTables |-> <<BootstrapRow>>]
  /\ lanceNextId = 1
  /\ lanceOps = [p \in Procs |-> IdleScopeDelete]

\* A delete-by-scope call that has returned is forgotten when a call starts.
RetireScopeDeletes(os) == [x \in Procs |-> IF os[x].pc = "resolved" THEN IdleScopeDelete ELSE os[x]]

\* The where clause of a delete-by-scope: `user_id = "u"`, with
\* ` AND project_id = "p"` for a truthy projectId; `kb_id = "k"`;
\* `session_id = "s"`.
MatchesWhere(row, owner, project) ==
  row.owner = owner /\ (~Truthy(project) \/ row.project = project)

\* createMemory / createFact / createChatMessage: `await table.add([row])`
LanceAdd(t, owner, project) ==
  /\ lanceNextId <= MaxRows
  /\ lanceRows' = [lanceRows EXCEPT ![t] =
                     Append(@, [id |-> lanceNextId, owner |-> owner, project |-> project])]
  /\ lanceNextId' = lanceNextId + 1
  /\ lanceOps' = RetireScopeDeletes(lanceOps)
  /\ UNCHANGED notLance

\* deleteMemory / deleteFact / deleteChatMessage: `await table.delete('memory_id = "id"')`
LanceDeleteById(t, id) ==
  /\ \E i \in 1..Len(lanceRows[t]) : lanceRows[t][i].id = id
  /\ LET Other(r) == r.id # id IN
     lanceRows' = [lanceRows EXCEPT ![t] = SelectSeq(@, Other)]
  /\ lanceOps' = RetireScopeDeletes(lanceOps)
  /\ UNCHANGED <<lanceNextId, notLance>>

\* deleteUserMemories / deleteKnowledgeBaseFacts / deleteChatSessionMessages,
\* to the end of `toDelete = await queryToArray(query)`
ScopeDeleteEnumerate(p, t, owner, project) ==
  /\ lanceOps[p].pc \in {"idle", "resolved"}
  /\ LET In(r) == MatchesWhere(r, owner, project) IN
     lanceOps' = [RetireScopeDeletes(lanceOps) EXCEPT ![p] =
                    [IdleScopeDelete EXCEPT !.pc = "enumerated", !.table = t, !.owner = owner,
                                            !.project = project,
                                            !.toDelete = SelectSeq(lanceRows[t], In)]]
  /\ UNCHANGED <<lanceRows, lanceNextId, notLance>>

\* What a delete-by-scope returns after its `await table.delete(whereClause)`.
ScopeDeleteCount_Removed(toDelete, removed) == Len(removed)

ScopeDeleteCount(toDelete, removed) == Len(toDelete)

\* ... `await table.delete(whereClause); return toDelete.length`
ScopeDeleteRemove(p) ==
  /\ lanceOps[p].pc = "enumerated"
  /\ LET o      == lanceOps[p]
         In(r)  == MatchesWhere(r, o.owner, o.project)
         Out(r) == ~MatchesWhere(r, o.owner, o.project)
         gone   == SelectSeq(lanceRows[o.table], In)
     IN /\ lanceRows' = [lanceRows EXCEPT ![o.table] = SelectSeq(@, Out)]
        /\ lanceOps' = [lanceOps EXCEPT ![p] =
                          [o EXCEPT !.pc = "resolved", !.removed = gone,
                                    !.ret = ScopeDeleteCount(o.toDelete, gone)]]
  /\ UNCHANGED <<lanceNextId, notLance>>

NextLance ==
  \/ \E t \in LanceTables, o \in LanceOwners, pr \in ProjectFields :
       (t # "memories" => pr = Undefined) /\ LanceAdd(t, o, pr)
  \/ \E t \in LanceTables, id \in 1..MaxRows : LanceDeleteById(t, id)
  \/ \E p \in Procs, t \in LanceTables, o \in LanceOwners, pr \in ProjectFields :
       (t # "memories" => pr = Undefined) /\ ScopeDeleteEnumerate(p, t, o, pr)
  \/ \E p \in Procs : ScopeDeleteRemove(p)

\* ---------------------------------------------- MemoryService, MemoryClient
\* The services work on the store by its methods; a call of the llm or of the
\* embeddings is awaited and settles in a later step, a call of the in-memory
\* store runs to its end when it is made. One caller, one call at a time.

\* An optional boolean of a request, and `request.x ?? d`.
NoFlag == [given |-> FALSE, v |-> FALSE]
Flags == {NoFlag, [given |-> TRUE, v |-> TRUE], [given |-> TRUE, v |-> FALSE]}
\* The request's own value is not looked at.
Coalesce_Default(opt, d) == d

Coalesce(opt, d) == IF opt.given THEN opt.v ELSE d

\* `request.limit ?? 10` of MemoryService.search
ServiceSearchLimit == 10

\* Texts of requests, and the texts the model behind OpenAILLMService answers
\* stripPII with (`message.content || ''`).
Queries == {"ann", "b"}
LlmTexts == {"[NAME]", ""}

\* The vectors the embeddings service answers with.
ServiceEmbeddings == {<<1, 0>>, <<1, 1>>}

\* stripPII: MockLLMService replaces a capitalised first and last name by
\* [NAME] (no text here holds an e-mail address or a number);
\* OpenAILLMService returns what the model answers, or rejects when the
\* request fails.
MockStripPII(text) == IF text = "Ann Lee" THEN "[NAME]" ELSE text
StripOutcomes(llm, text) ==
  IF llm = "mock" THEN {[ok |-> TRUE, text |-> MockStripPII(text)]}
  ELSE {[ok |-> TRUE, text |-> t] : t \in LlmTexts} \cup {[ok |-> FALSE, text |-> ""]}

\* MockLLMService.filterResults: the results whose lower-cased content
\* includes a word of the lower-cased query.
MockIncludes(content, word) ==
  \/ content = "Ann Lee" /\ word = "ann"
  \/ content = "b" /\ word = "b"
MockFilterResults(query, results) ==
  LET Hit(r) == MockIncludes(r.entity.content, query) IN SelectSeq(results, Hit)

\* What the model call of OpenAILLMService.filterResults gives: a rejection,
\* a text that is not JSON, JSON that is not an array, or a JSON array. An
\* element of the array is a number (v, or v + 0.5 when half) or a string.
JsonNumber(v, half) == [type |-> "number", v |-> v, half |-> half]
JsonString == [type |-> "string", v |-> 0, half |-> FALSE]
JsonElements ==
  {JsonNumber(0, FALSE), JsonNumber(1, FALSE), JsonNumber(2, FALSE), JsonNumber(3, FALSE),
   JsonNumber(-1, FALSE), JsonNumber(0, TRUE), JsonString}
LlmResponses ==
  {[kind |-> k, array |-> <<>>] : k \in {"rejected", "text", "json"}}
    \cup {[kind |-> "array", array |-> a] : a \in SeqUpTo(JsonElements, MaxIndices)}

\* `results[i]` for an i that is no index of the array.
UndefinedResult ==
  [entity |-> [id |-> Undefined, user_id |-> Undefined, project_id |-> Undefined,
               content |-> Undefined, embedding |-> NoVector],
   similarity_score |-> [kind |-> "undefined", dot |-> 0, na |-> 0, nb |-> 0]]

\* `indices.filter(i => typeof i === 'number' && i >= 0 && i < results.length)
\*         .map(i => results[i])`
KeepsIndex(e, n) == e.type = "number" /\ e.v >= 0 /\ e.v < n
\* The picked results come out last index first.
PickIndices_Reversed(array, results) ==
  LET Keep(e) == e.type = "number" /\ e.v >= 0 /\ e.v < Len(results)
      kept    == SelectSeq(array, Keep)
  IN [j \in 1..Len(kept) |-> results[kept[Len(kept) + 1 - j].v + 1]]

PickIndices(array, results) ==
  LET Keep(e) == KeepsIndex(e, Len(results))
      kept    == SelectSeq(array, Keep)
  IN [j \in 1..Len(kept) |-> IF kept[j].half THEN UndefinedResult ELSE results[kept[j].v + 1]]

\* A response that is no array filters every result out.
FilterByResponse_Empty(resp, results) ==
  IF resp.kind = "array" THEN PickIndices(resp.array, results) ELSE <<>>

\* OpenAILLMService.filterResults after `await this.complete(...)` settled
\* with a text: the try block and the final return.
FilterByResponse(resp, results) ==
  IF resp.kind = "array" THEN PickIndices(resp.array, results) ELSE results

IdleSvc ==
  [op |-> "none", pc |-> "idle", user |-> "", text |-> "", flag |-> NoFlag, limit |-> NoNumber,
   id |-> "", content |-> "", stripped |-> FALSE, results |-> <<>>, response |-> "none",
   indices |-> <<>>,
   list |-> <<>>, ok |-> FALSE, failedAt |-> ""]

InitService ==
  /\ svcConfig \in [stripPiiDefault : BOOLEAN, filterWithLlmDefault : BOOLEAN,
                    llm : {"mock", "openai"}]
  /\ svcCall = IdleSvc
  /\ svcTrace = <<>>

\* A call made on a collaborator.
Called(fn, arg) == [fn |-> fn, arg |-> arg]

ServiceStoreUnchanged ==
  UNCHANGED <<projects, memories, knowledgeBases, facts, chatSessions, chatMessages, nextId,
              storeRet>>

\* The caller receives the result or the rejection of its call.
ServiceReturn ==
  /\ svcCall.pc \in {"resolved", "rejected"}
  /\ svcCall' = IdleSvc
  /\ svcTrace' = <<>>
  /\ ServiceStoreUnchanged
  /\ UNCHANGED <<svcConfig, notService>>

\* MemoryService.remember, to its first awaited call: stripPII when
\* `request.strip_pii ?? config.stripPiiDefault`, embed otherwise.
RememberStart(userid, content, strip_pii) ==
  /\ svcCall.pc = "idle"
  /\ nextId <= MaxIds
  /\ LET strip == Coalesce(strip_pii, svcConfig.stripPiiDefault) IN
       /\ svcCall' = [IdleSvc EXCEPT !.op = "remember", !.user = userid, !.text = content,
                                     !.flag = strip_pii, !.content = content,
                                     !.pc = IF strip THEN "stripPII" ELSE "embed"]
       /\ svcTrace' = <<Called(IF strip THEN "stripPII" ELSE "embed", content)>>
  /\ ServiceStoreUnchanged
  /\ UNCHANGED <<svcConfig, notService>>

\* `content = await llm.stripPII(content)` settles; then embed(content) is called.
RememberStripped ==
  /\ svcCall.op = "remember" /\ svcCall.pc = "stripPII"
  /\ \E out \in StripOutcomes(svcConfig.llm, svcCall.content) :
       IF out.ok
         THEN /\ svcCall' = [svcCall EXCEPT !.content = out.text, !.stripped = TRUE, !.pc = "embed"]
              /\ svcTrace' = Append(svcTrace, Called("embed", out.text))
         ELSE /\ svcCall' = [svcCall EXCEPT !.pc = "rejected", !.failedAt = "stripPII"]
              /\ svcTrace' = svcTrace
  /\ ServiceStoreUnchanged
  /\ UNCHANGED <<svcConfig, notService>>

\* `embedding = await embeddings.embed(content)` settles; db.createMemory
\* stores the memory.
RememberEmbedded ==
  /\ svcCall.op = "remember" /\ svcCall.pc = "embed"
  /\ \E e \in ServiceEmbeddings :
       LET m == [id |-> FreshId, user_id |-> svcCall.user, project_id |-> Undefined,
                 content |-> svcCall.content, embedding |-> Some(e)]
       IN /\ memories' = Append(memories, m)
          /\ svcCall' = [svcCall EXCEPT !.pc = "resolved", !.list = <<m>>]
  /\ nextId' = nextId + 1
  /\ svcTrace' = Append(svcTrace, Called("createMemory", svcCall.content))
  /\ UNCHANGED <<projects, knowledgeBases, facts, chatSessions, chatMessages, storeRet>>
  /\ UNCHANGED <<svcConfig, notService>>

\* MemoryService.search, to `await embeddings.embed(request.query)`.
SearchStart(userid, query, limit, filter_with_llm) ==
  /\ svcCall.pc = "idle"
  /\ svcCall' = [IdleSvc EXCEPT !.op = "search", !.user = userid, !.text = query,
                                !.limit = limit, !.flag = filter_with_llm, !.pc = "embed"]
  /\ svcTrace' = <<Called("embed", query)>>
  /\ ServiceStoreUnchanged
  /\ UNCHANGED <<svcConfig, notService>>

\* The call filterResults makes on the llm with the results of the store:
\* MockLLMService answers at once; OpenAILLMService answers [] for no
\* result and otherwise awaits the model (`await this.complete(...)`).
FilterCall(c, results) ==
  IF svcConfig.llm = "mock"
    THEN [c EXCEPT !.pc = "resolved", !.results = results,
                   !.list = MockFilterResults(c.text, results)]
  ELSE IF results = <<>>
    THEN [c EXCEPT !.pc = "resolved", !.results = results, !.list = <<>>]
    ELSE [c EXCEPT !.pc = "filter", !.results = results]

\* The embedding of the query settles; db.searchMemories runs, and
\* llm.filterResults is called when
\* `request.filter_with_llm ?? config.filterWithLlmDefault`.
SearchEmbedded ==
  /\ svcCall.op = "search" /\ svcCall.pc = "embed"
  /\ \E e \in ServiceEmbeddings :
       \E out \in SearchOutcomes("searchMemories",
                    [NoArgs EXCEPT !.owner = svcCall.user, !.embedding = Some(e),
                                   !.limit = Some(Coalesce(svcCall.limit, ServiceSearchLimit))],
                    MemoryCandidates(svcCall.user, Undefined)) :
         IF out.threw
           THEN /\ svcCall' = [svcCall EXCEPT !.pc = "rejected", !.failedAt = "searchMemories"]
                /\ svcTrace' = Append(svcTrace, Called("searchMemories", svcCall.text))
           ELSE IF Coalesce(svcCall.flag, svcConfig.filterWithLlmDefault)
             THEN /\ svcCall' = FilterCall(svcCall, out.list)
                  /\ svcTrace' = svcTrace \o <<Called("searchMemories", svcCall.text),
                                               Called("filterResults", svcCall.text)>>
             ELSE /\ svcCall' = [svcCall EXCEPT !.pc = "resolved", !.results = out.list,
                                                !.list = out.list]
                  /\ svcTrace' = Append(svcTrace, Called("searchMemories", svcCall.text))
  /\ ServiceStoreUnchanged
  /\ UNCHANGED <<svcConfig, notService>>

\* What a rejected model call does to filterResults and so to search: the
\* await is outside the try block and search has no handler of its own.
ModelCallRejected(c) ==
  [c EXCEPT !.pc = "rejected", !.response = "rejected", !.failedAt = "filterResults"]

\* `const response = await this.complete(prompt, system)` of
\* OpenAILLMService.filterResults settles; search returns what filterResults
\* returns.
SearchFiltered ==
  /\ svcCall.op = "search" /\ svcCall.pc = "filter"
  /\ \E resp \in LlmResponses :
       svcCall' = IF resp.kind = "rejected"
                    THEN ModelCallRejected(svcCall)
                    ELSE [svcCall EXCEPT !.pc = "resolved", !.response = resp.kind,
                                         !.indices = resp.array,
                                         !.list = FilterByResponse(resp, svcCall.results)]
  /\ svcTrace' = svcTrace
  /\ ServiceStoreUnchanged
  /\ UNCHANGED <<svcConfig, notService>>

\* MemoryService.getMemory(userId, memoryId)
ServiceGetMemory(userId, memoryId) ==
  /\ svcCall.pc = "idle"
  /\ LET memory == GetOrNull(memories, memoryId) IN
     svcCall' = [IdleSvc EXCEPT !.op = "getMemory", !.user = userId, !.id = memoryId,
                                !.pc = "resolved",
                                !.list = IF memory # <<>> /\ memory[1].user_id # userId
                                           THEN <<>> ELSE memory]
  /\ svcTrace' = <<Called("getMemory", memoryId)>>
  /\ ServiceStoreUnchanged
  /\ UNCHANGED <<svcConfig, notService>>

\* The ownership test of MemoryService.deleteMemory.
MayDelete_Anyone(memory, userId) == memory # <<>>

MayDelete(memory, userId) == ~(memory = <<>> \/ memory[1].user_id # userId)

\* MemoryService.deleteMemory(userId, memoryId)
ServiceDeleteMemory(userId, memoryId) ==
  /\ svcCall.pc = "idle"
  /\ LET memory == GetOrNull(memories, memoryId) IN
     IF MayDelete(memory, userId)
       THEN /\ memories' = WithoutId(memories, memoryId)
            /\ svcCall' = [IdleSvc EXCEPT !.op = "deleteMemory", !.user = userId, !.id = memoryId,
                                          !.pc = "resolved", !.ok = HasId(memories, memoryId)]
            /\ svcTrace' = <<Called("getMemory", memoryId), Called("deleteMemory", memoryId)>>
       ELSE /\ memories' = memories
            /\ svcCall' = [IdleSvc EXCEPT !.op = "deleteMemory", !.user = userId, !.id = memoryId,
                                          !.pc = "resolved", !.ok = FALSE]
            /\ svcTrace' = <<Called("getMemory", memoryId)>>
  /\ UNCHANGED <<projects, knowledgeBases, facts, chatSessions, chatMessages, nextId, storeRet>>
  /\ UNCHANGED <<svcConfig, notService>>

\* MemoryClient.addFact(request): embed the content, db.createFact.
ClientAddFact(knowledgeBaseId, content) ==
  /\ svcCall.pc = "idle"
  /\ nextId <= MaxIds
  /\ \E e \in ServiceEmbeddings :
       LET f == [id |-> FreshId, kb_id |-> knowledgeBaseId, content |-> content,
                 embedding |-> Some(e)]
       IN /\ facts' = Append(facts, f)
          /\ svcCall' = [IdleSvc EXCEPT !.op = "addFact", !.user = knowledgeBaseId,
                                        !.text = content, !.pc = "resolved", !.list = <<f>>]
  /\ nextId' = nextId + 1
  /\ svcTrace' = <<Called("embed", content), Called("createFact", content)>>
  /\ UNCHANGED <<projects, memories, knowledgeBases, chatSessions, chatMessages, storeRet>>
  /\ UNCHANGED <<svcConfig, notService>>

\* `similarity_score: 1`
ScoreOne == [kind |-> "num", dot |-> 1, na |-> 1, nb |-> 1]

\* The facts the no-query branch of MemoryClient.searchFacts asks the store for.
NoQueryFacts_All(knowledgeBaseId, limit) ==
  LET In(f) == f.kb_id = knowledgeBaseId IN SelectSeq(facts, In)

NoQueryFacts(knowledgeBaseId, limit) == ListFacts(knowledgeBaseId, limit, NoNumber)

\* MemoryClient.searchFacts(request)
ClientSearchFacts(knowledgeBaseId, query, limit) ==
  /\ svcCall.pc = "idle"
  /\ LET c == [IdleSvc EXCEPT !.op = "searchFacts", !.user = knowledgeBaseId, !.text = query,
                              !.limit = limit]
     IN IF ~Truthy(query)
          THEN LET fs == NoQueryFacts(knowledgeBaseId, limit) IN
               /\ svcCall' = [c EXCEPT !.pc = "resolved",
                                !.list = [i \in 1..Len(fs) |->
                                            [entity |-> fs[i], similarity_score |-> ScoreOne]]]
               /\ svcTrace' = <<Called("getKnowledgeBaseFacts", knowledgeBaseId)>>
          ELSE \E e \in ServiceEmbeddings :
                 \E out \in SearchOutcomes("searchFacts",
                              [NoArgs EXCEPT !.owner = knowledgeBaseId, !.embedding = Some(e),
                                             !.limit = limit],
                              FactCandidates(knowledgeBaseId)) :
                   /\ svcCall' = IF out.threw
                                   THEN [c EXCEPT !.pc = "rejected", !.failedAt = "searchFacts"]
                                   ELSE [c EXCEPT !.pc = "resolved", !.list = out.list]
                   /\ svcTrace' = <<Called("embed", query), Called("searchFacts", query)>>
  /\ ServiceStoreUnchanged
  /\ UNCHANGED <<svcConfig, notService>>

\* The requests of the services' caller.
FactQueries == {Undefined, "", "ann"}
ServiceLimits == {NoNumber, Some(1)}

NextService ==
  \/ ServiceReturn
  \/ \E u \in Users, c \in Contents, f \in Flags : RememberStart(u, c, f)
  \/ RememberStripped
  \/ RememberEmbedded
  \/ \E u \in Users, id \in Ids : ServiceGetMemory(u, id)
  \/ \E u \in Users, id \in Ids : ServiceDeleteMemory(u, id)
  \/ \E k \in ParentIds, c \in Contents : ClientAddFact(k, c)
  \/ \E k \in ParentIds, q \in FactQueries, l \in ServiceLimits : ClientSearchFacts(k, q, l)

\* The stores MemoryService.search is run on: up to MaxResults memories
\* that remember stored for one user, in the order it stored them.
StoredMemories ==
  {s \in SeqUpTo([id : {ToString(i) : i \in 1..MaxResults}, user_id : {"u1"},
                  project_id : {Undefined}, content : Contents,
                  embedding : {Some(e) : e \in ServiceEmbeddings}], MaxResults) :
     \A i \in 1..Len(s) : s[i].id = ToString(i)}

InitSearch ==
  /\ svcConfig \in [stripPiiDefault : {FALSE}, filterWithLlmDefault : BOOLEAN,
                    llm : {"mock", "openai"}]
  /\ svcCall = IdleSvc
  /\ svcTrace = <<>>
  /\ memories \in StoredMemories
  /\ nextId = Len(memories) + 1
  /\ projects = <<>> /\ knowledgeBases = <<>> /\ facts = <<>>
  /\ chatSessions = <<>> /\ chatMessages = <<>>
  /\ storeRet = NoRet

\* MemoryService.search with and without the llm filter.
NextSearch ==
  \/ ServiceReturn
  \/ \E q \in Queries, l \in ServiceLimits, f \in Flags : SearchStart("u1", q, l, f)
  \/ SearchEmbedded
  \/ SearchFiltered

\* ------------------------------------------------- MockEmbeddingService
\* Texts handed to the mock provider, as sequences of character codes:
\* "", "a", "b", "aa", "ab", "ba", "bb".
MockTexts == UNION {[1..n -> {97, 98}] : n \in 0..2}
\* The dimensions the mock providers are constructed with.
MockDimensions == {1, 2}

\* text.split('').reduce((acc, char) => acc + char.charCodeAt(0), 0)
RECURSIVE Seed(_)
Seed(text) ==
  IF text = <<>> THEN 0 ELSE Seed(SubSeq(text, 1, Len(text) - 1)) + text[Len(text)]

\* rng(s) * 2 - 1 with rng(s) = frac(sin(s) * 10000). The number is kept as
\* the expression that names it: sin takes no value twice on the integers,
\* and no two of its values there differ by a multiple of 1/10000.
Rng(s) == [fracSin10000 |-> s]

\* Array.from({ length: this.dimension }, (_, i) => rng(seed + i) * 2 - 1)
MockEmbed_Constant(text, dimension) == [i \in 1..dimension |-> Rng(i - 1)]

MockEmbed(text, dimension) == [i \in 1..dimension |-> Rng(Seed(text) + (i - 1))]

InitMock == mockLog = <<>>

\* embed(text) on a mock provider of the given dimension.
MockEmbedCall(text, dimension) ==
  /\ Len(mockLog) < MaxMockCalls
  /\ mockLog' = Append(mockLog, [text |-> text, dimension |-> dimension,
                                 embedding |-> MockEmbed(text, dimension)])
  /\ UNCHANGED notMock

NextMock == \E t \in MockTexts, d \in MockDimensions : MockEmbedCall(t, d)

\* ------------------------------------------- LanceDBClient's table handles
\* Every method of LanceDBClient first awaits get<Table>Table(), which opens
\* or creates the table when the client's field is null, and then runs its
\* table operation on the handle it was given. The six tables share the code;
\* the three entity tables are modelled, and callers that overlap use one.
ClientTables == LanceTables
SharedTables == {"memories"}
\* null
NoHandle == 0
\* The string "dummy" of the bootstrap's delete, which is no uuid.
DummyKey == -1

IdleClientCall ==
  [op |-> "none", pc |-> "idle", table |-> "", owner |-> "", project |-> Undefined,
   id |-> 0, limit |-> NoNumber, offset |-> NoNumber, handle |-> NoHandle,
   list |-> <<>>, ok |-> FALSE, threw |-> FALSE]

InitClient ==
  /\ tableNames = {}
  /\ handles = [t \in ClientTables |-> NoHandle]
  /\ opened = [t \in ClientTables |-> 0]
  /\ used = [t \in ClientTables |-> {}]
  /\ clientCalls = [p \in Procs |-> IdleClientCall]

\* A new database: no table, no row.
InitLanceClient ==
  /\ InitClient
  /\ lanceRows = [t \in LanceTables |-> <<>>]
  /\ lanceNextId = 1
  /\ lanceOps = [p \in Procs |-> IdleScopeDelete]

\* The create calls in progress that have not added their row yet.
PendingAdds == {p \in Procs : clientCalls[p].op = "add" /\ clientCalls[p].pc \notin {"idle", "done", "failed"}}

\* A method is called: `if (!this.memoriesTable)` is evaluated at once; with
\* a handle in the field the method goes on with it, otherwise it awaits
\* getConnection() and conn.tableNames().
ClientCallStart(p, op, t, owner, project, id, limit, offset) ==
  /\ clientCalls[p].pc = "idle"
  /\ op = "add" => lanceNextId + Cardinality(PendingAdds) <= MaxRows
  /\ clientCalls' = [clientCalls EXCEPT ![p] =
       [IdleClientCall EXCEPT !.op = op, !.table = t, !.owner = owner, !.project = project,
                              !.id = id, !.limit = limit, !.offset = offset,
                              !.handle = handles[t],
                              !.pc = IF handles[t] # NoHandle THEN "ready" ELSE "names"]]
  /\ UNCHANGED <<tableNames, handles, opened, used, varsLance, varsStore, notClient>>

\* `tables = await conn.tableNames()` answers, and createTable or openTable
\* is called; the handle it will give is a new one.
ClientTableNames(p) ==
  /\ clientCalls[p].pc = "names"
  /\ LET t == clientCalls[p].table IN
       /\ opened' = [opened EXCEPT ![t] = @ + 1]
       /\ clientCalls' = [clientCalls EXCEPT ![p].handle = opened[t] + 1,
                                             ![p].pc = IF t \in tableNames THEN "opening"
                                                                           ELSE "creating"]
  /\ UNCHANGED <<tableNames, handles, used, varsLance, varsStore, notClient>>

\* `this.memoriesTable = await conn.createTable('memories', [{...}])`: the
\* database refuses a table it already holds; otherwise the table exists
\* with its one row, and the field holds the handle.
ClientCreateTable_Forgets(p) ==
  /\ clientCalls[p].pc = "creating"
  /\ LET t == clientCalls[p].table IN
       IF t \in tableNames
         THEN /\ clientCalls' = [clientCalls EXCEPT ![p].pc = "failed", ![p].threw = TRUE]
              /\ UNCHANGED <<tableNames, lanceRows>>
         ELSE /\ tableNames' = tableNames \cup {t}
              /\ lanceRows' = [lanceRows EXCEPT ![t] = <<BootstrapRow>>]
              /\ clientCalls' = [clientCalls EXCEPT ![p].pc = "bootstrap"]
  /\ UNCHANGED <<handles, opened, used, lanceNextId, lanceOps, varsStore, notClient>>

ClientCreateTable(p) ==
  /\ clientCalls[p].pc = "creating"
  /\ LET t == clientCalls[p].table IN
       IF t \in tableNames
         THEN /\ clientCalls' = [clientCalls EXCEPT ![p].pc = "failed", ![p].threw = TRUE]
              /\ UNCHANGED <<tableNames, handles, lanceRows>>
         ELSE /\ tableNames' = tableNames \cup {t}
              /\ lanceRows' = [lanceRows EXCEPT ![t] = <<BootstrapRow>>]
              /\ handles' = [handles EXCEPT ![t] = clientCalls[p].handle]
              /\ clientCalls' = [clientCalls EXCEPT ![p].pc = "bootstrap"]
  /\ UNCHANGED <<opened, used, lanceNextId, lanceOps, varsStore, notClient>>

\* The rows a delete by id leaves: `table.delete('memory_id = "<id>"')`.
RowsWithout_All(rows, id) == <<>>

RowsWithout(rows, id) == LET Other(r) == r.id # id IN SelectSeq(rows, Other)

\* `await this.memoriesTable.delete('memory_id = "dummy"')`, and
\* `return this.memoriesTable` with the field as it is then.
ClientBootstrapDelete(p) ==
  /\ clientCalls[p].pc = "bootstrap"
  /\ LET t == clientCalls[p].table IN
       /\ lanceRows' = [lanceRows EXCEPT ![t] = RowsWithout(@, DummyKey)]
       /\ clientCalls' = [clientCalls EXCEPT ![p].pc = "ready", ![p].handle = handles[t]]
  /\ UNCHANGED <<tableNames, handles, opened, used, lanceNextId, lanceOps, varsStore, notClient>>

\* `this.memoriesTable = await conn.openTable('memories')`
ClientOpenTable(p) ==
  /\ clientCalls[p].pc = "opening"
  /\ handles' = [handles EXCEPT ![clientCalls[p].table] = clientCalls[p].handle]
  /\ clientCalls' = [clientCalls EXCEPT ![p].pc = "ready"]
  /\ UNCHANGED <<tableNames, opened, used, varsLance, varsStore, notClient>>

\* `query.where(...).limit(limit + offset)`, then `results.slice(offset,
\* offset + limit)`, with `limit = 100, offset = 0`.
LanceListing_First(rows, owner, project, limit, offset) ==
  LET In(r) == MatchesWhere(r, owner, project)
  IN Slice(SelectSeq(rows, In), 0, OrDefault(limit, ListLimitDefault))

LanceListing(rows, owner, project, limit, offset) ==
  LET In(r) == MatchesWhere(r, owner, project)
      lim   == OrDefault(limit, ListLimitDefault)
      off   == OrDefault(offset, ListOffsetDefault)
  IN Slice(Slice(SelectSeq(rows, In), 0, lim + off), off, off + lim)

\* What a delete by id answers: `return true`.
LanceDeleted_IfFound(rows, id) == \E i \in 1..Len(rows) : rows[i].id = id

LanceDeleted(rows, id) == TRUE

\* The table operation of the method, on the handle it was given:
\* table.add([row]); query().where('memory_id = "<id>"').limit(1); the
\* listing query; table.delete('memory_id = "<id>"').
ClientOperate(p) ==
  /\ clientCalls[p].pc = "ready"
  /\ LET c    == clientCalls[p]
         rows == lanceRows[c.table]
         row  == [id |-> lanceNextId, owner |-> c.owner, project |-> c.project]
         Is(r) == r.id = c.id
     IN /\ used' = [used EXCEPT ![c.table] = @ \cup {c.handle}]
        /\ lanceRows' = [lanceRows EXCEPT ![c.table] =
                           IF c.op = "add" THEN Append(rows, row)
                           ELSE IF c.op = "delete" THEN RowsWithout(rows, c.id)
                           ELSE rows]
        /\ lanceNextId' = IF c.op = "add" THEN lanceNextId + 1 ELSE lanceNextId
        /\ clientCalls' = [clientCalls EXCEPT ![p] =
             [c EXCEPT !.pc = "done",
                       !.ok = IF c.op = "delete" THEN LanceDeleted(rows, c.id) ELSE FALSE,
                       !.list = IF c.op = "add" THEN <<row>>
                                ELSE IF c.op = "get" THEN Slice(SelectSeq(rows, Is), 0, 1)
                                ELSE IF c.op = "list"
                                  THEN LanceListing(rows, c.owner, c.project, c.limit, c.offset)
                                ELSE <<>>]]
  /\ UNCHANGED <<tableNames, handles, opened, lanceOps, varsStore, notClient>>

\* The caller takes the result, or the error, of its call.
ClientTake(p) ==
  /\ clientCalls[p].pc \in {"done", "failed"}
  /\ clientCalls' = [clientCalls EXCEPT ![p] = IdleClientCall]
  /\ UNCHANGED <<tableNames, handles, opened, used, varsLance, varsStore, notClient>>

\* close(), called while no method runs.
ClientClose ==
  /\ \A p \in Procs : clientCalls[p].pc = "idle"
  /\ \E t \in ClientTables : handles[t] # NoHandle
  /\ handles' = [t \in ClientTables |-> NoHandle]
  /\ opened' = [t \in ClientTables |-> 0]
  /\ used' = [t \in ClientTables |-> {}]
  /\ UNCHANGED <<tableNames, clientCalls, varsLance, varsStore, notClient>>

\* The owners the client's calls name, and the ids they get and delete.
ClientOwners == {"1", "dummy"}
ClientIds == 1..MaxRows

\* Two callers of one LanceDBClient.
NextLanceClient ==
  \/ \E p \in Procs, t \in SharedTables, o \in ClientOwners :
       ClientCallStart(p, "add", t, o, Undefined, 0, NoNumber, NoNumber)
  \/ \E p \in Procs, t \in SharedTables, id \in ClientIds :
       ClientCallStart(p, "get", t, "", Undefined, id, NoNumber, NoNumber)
  \/ \E p \in Procs, t \in SharedTables, o \in ClientOwners :
       ClientCallStart(p, "list", t, o, Undefined, 0, NoNumber, NoNumber)
  \/ \E p \in Procs, t \in SharedTables, id \in ClientIds :
       ClientCallStart(p, "delete", t, "", Undefined, id, NoNumber, NoNumber)
  \/ \E p \in Procs : ClientTableNames(p)
  \/ \E p \in Procs : ClientCreateTable(p)
  \/ \E p \in Procs : ClientBootstrapDelete(p)
  \/ \E p \in Procs : ClientOpenTable(p)
  \/ \E p \in Procs : ClientOperate(p)
  \/ \E p \in Procs : ClientTake(p)
  \/ ClientClose

\* --------------------------------------------------- the two backends
\* One caller runs each call on the in-memory store and then on the LanceDB
\* store. The n-th entity created has the uuid ToString(n) in the one and n
\* in the other.
LanceIdOf(id) == CHOOSE n \in 1..(MaxIds + 1) : ToString(n) = id

\* The table of the LanceDB store that holds the entities a call of the
\* in-memory store is about, and the owner column of a created entity.
BackendTable(op) ==
  IF op \in {"createMemory", "deleteMemory", "getUserMemories"} THEN "memories"
  ELSE IF op \in {"createFact", "deleteFact", "getKnowledgeBaseFacts"} THEN "facts"
  ELSE "chat_messages"
CreatedOwner(op, e) ==
  IF op = "createMemory" THEN e.user_id ELSE IF op = "createFact" THEN e.kb_id ELSE e.session_id

\* The call the in-memory store has answered is made on the LanceDB store.
BackendMirror ==
  /\ storeRet.op # "none"
  /\ IF storeRet.op \in {"createMemory", "createFact", "createChatMessage"}
       THEN ClientCallStart("p1", "add", BackendTable(storeRet.op),
                            CreatedOwner(storeRet.op, storeRet.list[1]), Undefined,
                            0, NoNumber, NoNumber)
     ELSE IF storeRet.op \in {"deleteMemory", "deleteFact", "deleteChatMessage"}
       THEN ClientCallStart("p1", "delete", BackendTable(storeRet.op), "", Undefined,
                            LanceIdOf(storeRet.args.id), NoNumber, NoNumber)
       ELSE ClientCallStart("p1", "list", BackendTable(storeRet.op), storeRet.args.owner,
                            Undefined, 0, storeRet.args.limit, storeRet.args.offset)

\* Both stores have answered, or none has been asked.
ClientIdle == clientCalls["p1"].pc = "idle"
ClientAnswered == clientCalls["p1"].pc \in {"done", "failed"}

PageLimits == {NoNumber, Some(1), Some(2)}
PageOffsets == {NoNumber, Some(1), Some(2)}

NextBackends ==
  \/ \E u \in ClientOwners :
       Settled /\ ClientIdle /\ CreateMemory(u, Undefined, "a", NoVector)
  \/ \E u \in ClientOwners : Settled /\ ClientIdle /\ CreateFact(u, "a", NoVector)
  \/ \E u \in ClientOwners : Settled /\ ClientIdle /\ CreateChatMessage(u, "a", NoVector)
  \/ \E id \in Ids : Settled /\ ClientIdle /\ DeleteMemory(id)
  \/ \E id \in Ids : Settled /\ ClientIdle /\ DeleteFact(id)
  \/ \E id \in Ids : Settled /\ ClientIdle /\ DeleteChatMessage(id)
  \/ \E u \in ClientOwners, l \in PageLimits, o \in PageOffsets :
       Settled /\ ClientIdle /\ GetUserMemories(u, Undefined, l, o)
  \/ \E u \in ClientOwners, l \in PageLimits, o \in PageOffsets :
       Settled /\ ClientIdle /\ GetKnowledgeBaseFacts(u, l, o)
  \/ \E u \in ClientOwners, l \in PageLimits, o \in PageOffsets :
       Settled /\ ClientIdle /\ GetChatMessages(u, l, o)
  \/ BackendMirror
  \/ ClientTableNames("p1")
  \/ ClientCreateTable("p1")
  \/ ClientBootstrapDelete("p1")
  \/ ClientOpenTable("p1")
  \/ ClientOperate("p1")
  \/ ClientAnswered /\ TakeResult
  \/ Settled /\ ClientTake("p1")
  \/ Settled /\ ClientClose

\* ------------------------------------------------------------ retry
\* The options of the calls: maxRetries, initialDelay, maxDelay, factor.
RetryCounts == 0..MaxRetries
RetryDelays == {0, 1, 2}
RetryCaps == {1, 3, 4}
RetryFactors == {0, 1, 2, 3}

NoRetry ==
  [pc |-> "idle", maxRetries |-> 0, initialDelay |-> 0, maxDelay |-> 0, factor |-> 0,
   i |-> 0, delay |-> 0, lastError |-> 0, fnCalls |-> 0, waits |-> <<>>, ret |-> 0]

InitRetry == retryCall = NoRetry

\* retry(fn, options), up to its first await: `delay = initialDelay`, i = 0,
\* and fn is called. The n-th call of fn answers with the value n or fails
\* with the error n.
RetryStart(maxRetries, initialDelay, maxDelay, factor) ==
  /\ retryCall.pc = "idle"
  /\ retryCall' =
       IF 0 <= maxRetries
         THEN [NoRetry EXCEPT !.pc = "calling", !.maxRetries = maxRetries,
                              !.initialDelay = initialDelay, !.maxDelay = maxDelay,
                              !.factor = factor, !.delay = initialDelay, !.fnCalls = 1]
         ELSE [NoRetry EXCEPT !.pc = "thrown", !.maxRetries = maxRetries]
  /\ UNCHANGED notRetry

\* `return await fn()`: fn resolved.
RetryFnResolve ==
  /\ retryCall.pc = "calling"
  /\ retryCall' = [retryCall EXCEPT !.pc = "returned", !.ret = retryCall.fnCalls]
  /\ UNCHANGED notRetry

\* When the last attempt has failed too, the timer is set all the same.
AfterReject_AlwaysWaits(r) ==
  [r EXCEPT !.lastError = r.fnCalls, !.pc = "waiting", !.waits = Append(r.waits, r.delay)]

\* fn rejected: `lastError = error`; with attempts left the timer is set for
\* `delay`; otherwise i++ ends the loop and lastError is thrown.
AfterReject(r) ==
  IF r.i < r.maxRetries
    THEN [r EXCEPT !.lastError = r.fnCalls, !.pc = "waiting", !.waits = Append(r.waits, r.delay)]
    ELSE [r EXCEPT !.lastError = r.fnCalls, !.pc = "thrown", !.i = r.i + 1]

RetryFnReject ==
  /\ retryCall.pc = "calling"
  /\ retryCall' = AfterReject(retryCall)
  /\ UNCHANGED notRetry

\* The timer fired: `delay = Math.min(delay * factor, maxDelay)`, i++, and
\* fn is called again.
RetryTimer ==
  /\ retryCall.pc = "waiting"
  /\ retryCall' = [retryCall EXCEPT !.delay = Min(retryCall.delay * retryCall.factor, retryCall.maxDelay),
                                    !.i = retryCall.i + 1,
                                    !.fnCalls = retryCall.fnCalls + 1,
                                    !.pc = "calling"]
  /\ UNCHANGED notRetry

\* The caller takes the result of the call.
RetryTake ==
  /\ retryCall.pc \in {"returned", "thrown"}
  /\ retryCall' = NoRetry
  /\ UNCHANGED notRetry

NextRetry ==
  \/ \E m \in RetryCounts, d \in RetryDelays, c \in RetryCaps, f \in RetryFactors :
       RetryStart(m, d, c, f)
  \/ RetryFnResolve
  \/ RetryFnReject
  \/ RetryTimer
  \/ RetryTake

\* ------------------------------------ getEmbeddingService / setEmbeddingService
\* null
NoService == 0

\* The providers whose case of the switch constructs at once, and those whose
\* case first awaits a dynamic import.
SyncProviders == {"openai", "transformers", "onnx", "mock"}
ImportedProviders == {"candle", "llama"}

IdleGet == [pc |-> "idle", ret |-> NoService, stale |-> FALSE]

InitModule ==
  /\ embeddingProvider \in [name : SyncProviders \cup ImportedProviders, openaiKey : BOOLEAN]
  /\ embeddingService = NoService
  /\ getCalls = [p \in Procs |-> IdleGet]
  /\ nextService = 1
  /\ lastSet = NoService
  /\ returnedSince = {}
  /\ madeSince = {}

\* `new <Provider>(...)`, `embeddingService = ...`, `return embeddingService!`
\* by the call of p; the OpenAI constructor throws without an API key.
Construct(p) ==
  IF embeddingProvider.name = "openai" /\ ~embeddingProvider.openaiKey
    THEN /\ getCalls' = [getCalls EXCEPT ![p].pc = "failed"]
         /\ UNCHANGED <<embeddingService, nextService, returnedSince, madeSince>>
    ELSE /\ nextService <= MaxServices
         /\ embeddingService' = nextService
         /\ nextService' = nextService + 1
         /\ getCalls' = [getCalls EXCEPT ![p].pc = "done", ![p].ret = nextService]
         /\ returnedSince' = IF getCalls[p].stale THEN returnedSince
                                                  ELSE returnedSince \cup {nextService}
         /\ madeSince' = IF getCalls[p].stale THEN madeSince ELSE madeSince \cup {nextService}

\* getEmbeddingService() up to its first await, or to its return.
GetEmbeddingService_Fresh(p) ==
  /\ getCalls[p].pc = "idle"
  /\ IF embeddingProvider.name \in ImportedProviders
       THEN /\ getCalls' = [getCalls EXCEPT ![p].pc = "import"]
            /\ UNCHANGED <<embeddingService, nextService, returnedSince, madeSince>>
       ELSE Construct(p)
  /\ UNCHANGED <<embeddingProvider, lastSet, notModule>>

GetEmbeddingService(p) ==
  /\ getCalls[p].pc = "idle"
  /\ IF embeddingService # NoService
       THEN /\ getCalls' = [getCalls EXCEPT ![p].pc = "done", ![p].ret = embeddingService]
            /\ returnedSince' = returnedSince \cup {embeddingService}
            /\ UNCHANGED <<embeddingService, nextService, madeSince>>
     ELSE IF embeddingProvider.name \in ImportedProviders
       THEN /\ getCalls' = [getCalls EXCEPT ![p].pc = "import"]
            /\ UNCHANGED <<embeddingService, nextService, returnedSince, madeSince>>
       ELSE Construct(p)
  /\ UNCHANGED <<embeddingProvider, lastSet, notModule>>

\* `await import('./embeddings/candle')` answers: the rest of the case.
GetImported(p) ==
  /\ getCalls[p].pc = "import"
  /\ Construct(p)
  /\ UNCHANGED <<embeddingProvider, lastSet, notModule>>

\* The caller takes the provider, or the error.
GetTake(p) ==
  /\ getCalls[p].pc \in {"done", "failed"}
  /\ getCalls' = [getCalls EXCEPT ![p] = IdleGet]
  /\ UNCHANGED <<embeddingProvider, embeddingService, nextService, lastSet, returnedSince,
                 madeSince, notModule>>

\* setEmbeddingService(service), with a provider object of the caller's. The
\* calls in progress were made before it.
SetEmbeddingService ==
  /\ nextService <= MaxServices
  /\ embeddingService' = nextService
  /\ nextService' = nextService + 1
  /\ lastSet' = nextService
  /\ returnedSince' = {}
  /\ madeSince' = {}
  /\ getCalls' = [p \in Procs |-> IF getCalls[p].pc = "idle" THEN getCalls[p]
                                  ELSE [getCalls[p] EXCEPT !.stale = TRUE]]
  /\ UNCHANGED <<embeddingProvider, notModule>>

NextModule ==
  \/ \E p \in Procs : GetEmbeddingService(p)
  \/ \E p \in Procs : GetImported(p)
  \/ \E p \in Procs : GetTake(p)
  \/ SetEmbeddingService

\* --------------------------------------------------------- findKNearest
\* cosineSimilarity(a, b) of the package: throws on different lengths, is 0
\* when a norm is 0, and otherwise dot / (normA * normB), kept as the three integers.
UtilsCosineSimilarity(a, b) ==
  IF Len(a) # Len(b) THEN [kind |-> "throw", dot |-> 0, na |-> 0, nb |-> 0]
  ELSE IF SumSq(a) = 0 \/ SumSq(b) = 0 THEN [kind |-> "num", dot |-> 0, na |-> 1, nb |-> 1]
  ELSE [kind |-> "num", dot |-> Dot(a, b), na |-> SumSq(a), nb |-> SumSq(b)]

\* sum of (a[i] - b[i])^2
RECURSIVE SumSqDiff(_, _)
SumSqDiff(a, b) ==
  IF a = <<>> THEN 0
  ELSE (Head(a) - Head(b)) * (Head(a) - Head(b)) + SumSqDiff(Tail(a), Tail(b))

\* -euclideanDistance(a, b): throws on different lengths; otherwise -sqrt(d)
\* for the sum of squares d, kept as the quotient -d / sqrt(d * 1).
NegEuclideanDistance(a, b) ==
  IF Len(a) # Len(b) THEN [kind |-> "throw", dot |-> 0, na |-> 0, nb |-> 0]
  ELSE IF SumSqDiff(a, b) = 0 THEN [kind |-> "num", dot |-> 0, na |-> 1, nb |-> 1]
  ELSE [kind |-> "num", dot |-> 0 - SumSqDiff(a, b), na |-> SumSqDiff(a, b), nb |-> 1]

\* embeddings.map((embedding, index) => ({ index, score })); index i of the
\* code is index i + 1 here.
KnnScores(query, embeddings, metric) ==
  [i \in 1..Len(embeddings) |->
     [index |-> i,
      score |-> IF metric = "cosine" THEN UtilsCosineSimilarity(query, embeddings[i])
                                     ELSE NegEuclideanDistance(query, embeddings[i])]]

\* scores.sort((a, b) => b.score - a.score): every score is a number, the
\* sort is stable.
RECURSIVE KnnInsert(_, _)
KnnInsert(sorted, r) ==
  IF sorted = <<>> THEN <<r>>
  ELSE IF ScoreLess(Head(sorted).score, r.score)
    THEN <<r>> \o sorted
    ELSE <<Head(sorted)>> \o KnnInsert(Tail(sorted), r)
RECURSIVE KnnSort_Reversed(_)
KnnSort_Reversed(s) ==
  IF s = <<>> THEN <<>>
  ELSE KnnInsert(KnnSort_Reversed(Tail(s)), Head(s))

RECURSIVE KnnSort(_)
KnnSort(s) ==
  IF s = <<>> THEN <<>>
  ELSE KnnInsert(KnnSort(SubSeq(s, 1, Len(s) - 1)), s[Len(s)])

NoKnn == [called |-> FALSE, query |-> <<>>, embeddings |-> <<>>, k |-> 0,
          metric |-> "cosine", threw |-> FALSE, result |-> <<>>]

InitKnn == knn = NoKnn

\* findKNearest(query, embeddings, k, metric = 'cosine')
FindKNearest(query, embeddings, k, metric) ==
  /\ knn' = LET scores == KnnScores(query, embeddings, metric)
                call   == [NoKnn EXCEPT !.called = TRUE, !.query = query,
                                        !.embeddings = embeddings, !.k = k, !.metric = metric]
            IN IF \E i \in 1..Len(scores) : scores[i].score.kind = "throw"
                 THEN [call EXCEPT !.threw = TRUE]
                 ELSE [call EXCEPT !.result = Slice(KnnSort(scores), 0, k)]
  /\ UNCHANGED varsStore
  /\ UNCHANGED notKnn

\* The caller takes the result of findKNearest.
KnnTake ==
  /\ knn # NoKnn
  /\ knn' = NoKnn
  /\ UNCHANGED varsStore
  /\ UNCHANGED notKnn

\* The queries and the memories of the ranked store; findKNearest is handed
\* the embeddings of the stored memories, in store order.
KnnQueries == {<<1, 0>>, <<1, 1>>, <<1>>}
StoredVectors == [i \in 1..Len(memories) |-> memories[i].embedding.v]
KnnCounts == {-1, 0, 1, MaxCandidates}
KnnMetrics == {"cosine", "euclidean"}
RankedEmbeddings == {Some(<<1, 0>>), Some(<<0, 1>>), Some(<<0, 0>>)}
RankedMemories ==
  {s \in SeqUpTo([id : {ToString(i) : i \in 1..MaxCandidates}, user_id : {"u1"},
                  project_id : {Undefined}, content : StoreContents,
                  embedding : RankedEmbeddings], MaxCandidates) :
     \A i \in 1..Len(s) : s[i].id = ToString(i)}

\* A store that holds one user's memories, and no findKNearest call made.
InitRanking ==
  /\ memories \in RankedMemories
  /\ nextId = Len(memories) + 1
  /\ projects = <<>> /\ knowledgeBases = <<>> /\ facts = <<>>
  /\ chatSessions = <<>> /\ chatMessages = <<>>
  /\ storeRet = NoRet
  /\ knn = NoKnn

\* Searches of the store and findKNearest calls on its embeddings, one after another.
NextRanking ==
  \/ TakeResult
  \/ KnnTake
  \/ \E e \in KnnQueries, l \in SearchLimits :
       Settled /\ knn = NoKnn /\ SearchMemories("u1", e, Undefined, l)
  \/ \E q \in KnnQueries, k \in KnnCounts, mt \in KnnMetrics :
       Settled /\ knn = NoKnn /\ FindKNearest(q, StoredVectors, k, mt)

\* ----------------------------------------------------------- specifications
vars == <<varsCache, varsPool, varsFactory, varsStore, varsLance, varsService, varsMock, varsKnn, varsClient, varsModule, varsRetry>>

\* The components a specification does not move start in one fixed state.
RestCache == InitCache /\ provDet /\ provFn = [t \in Texts |-> <<1, 0>>]
RestPool == InitPool /\ poolImpl = "package" /\ ~poolCfg.given
RestFactory == InitFactory
RestStore == InitStore
RestLance == InitLance
RestMock == InitMock
RestKnn == InitKnn
RestClient == InitClient
RestRetry == InitRetry
RestModule == InitModule /\ embeddingProvider = [name |-> "mock", openaiKey |-> FALSE]
RestService ==
  /\ InitService
  /\ svcConfig = [stripPiiDefault |-> FALSE, filterWithLlmDefault |-> FALSE, llm |-> "mock"]

InitCachedSeq == InitCache /\ RestPool /\ RestRetry /\ RestFactory /\ RestStore /\ RestLance /\ RestService /\ RestMock /\ RestKnn /\ RestClient /\ RestModule
InitPoolOnly == InitPool /\ RestRetry /\ RestCache /\ RestFactory /\ RestStore /\ RestLance /\ RestService /\ RestMock /\ RestKnn /\ RestClient /\ RestModule
InitFactorySeq == InitFactory /\ RestCache /\ RestPool /\ RestRetry /\ RestStore /\ RestLance /\ RestService /\ RestMock /\ RestKnn /\ RestClient /\ RestModule
InitStoreOnly == InitStore /\ RestCache /\ RestPool /\ RestRetry /\ RestFactory /\ RestLance /\ RestService /\ RestMock /\ RestKnn /\ RestClient /\ RestModule
InitLanceOnly == InitLance /\ RestCache /\ RestPool /\ RestRetry /\ RestFactory /\ RestStore /\ RestService /\ RestMock /\ RestKnn /\ RestClient /\ RestModule
InitServiceOnly == InitService /\ InitStore /\ RestCache /\ RestPool /\ RestRetry /\ RestFactory /\ RestLance /\ RestMock /\ RestKnn /\ RestClient /\ RestModule
InitMockOnly ==
  InitMock /\ RestCache /\ RestPool /\ RestRetry /\ RestFactory /\ RestStore /\ RestLance /\ RestService /\ RestKnn /\ RestClient /\ RestModule
InitRankingOnly ==
  InitRanking /\ RestCache /\ RestPool /\ RestRetry /\ RestFactory /\ RestLance /\ RestService /\ RestMock /\ RestClient /\ RestModule
InitBackendsOnly ==
  InitLanceClient /\ InitStore /\ RestCache /\ RestPool /\ RestRetry /\ RestFactory /\ RestService /\ RestMock /\ RestKnn /\ RestModule
InitModuleOnly ==
  InitModule /\ RestCache /\ RestPool /\ RestRetry /\ RestFactory /\ RestStore /\ RestLance /\ RestService /\ RestMock /\ RestKnn /\ RestClient
InitLanceClientOnly ==
  InitLanceClient /\ RestCache /\ RestPool /\ RestRetry /\ RestFactory /\ RestStore /\ RestService /\ RestMock /\ RestKnn /\ RestModule
InitSearchOnly == InitSearch /\ RestCache /\ RestPool /\ RestRetry /\ RestFactory /\ RestLance /\ RestMock /\ RestKnn /\ RestClient /\ RestModule

\* The cached layer, one call at a time.
SpecCachedSeq == InitCachedSeq /\ [][NextCachedSeq]_vars
InitCachedOnly ==
  InitCache /\ provDet /\ provFn = [t \in Texts |-> <<1, 0>>] /\ RestPool /\ RestRetry /\ RestFactory /\ RestStore /\ RestLance /\ RestService /\ RestMock /\ RestKnn /\ RestClient /\ RestModule
SpecCached == InitCachedOnly /\ [][NextCached]_vars
InitRetryOnly ==
  InitRetry /\ RestCache /\ RestPool /\ RestFactory /\ RestStore /\ RestLance /\ RestService /\ RestMock /\ RestKnn /\ RestClient /\ RestModule
SpecRetry == InitRetryOnly /\ [][NextRetry]_vars

\* One worker-pool embedBatch call.
SpecPool == InitPoolOnly /\ [][NextPool]_vars

\* The factory and the providers' lifecycle, one operation at a time.
SpecFactorySeq == InitFactorySeq /\ [][NextFactorySeq]_vars
SpecFactory == InitFactorySeq /\ [][NextFactory]_vars

\* The in-memory store's entity tables.
SpecStore == InitStoreOnly /\ [][NextStore]_vars

\* The in-memory store's parents and their children.
SpecStoreParents == InitStoreOnly /\ [][NextStoreParents]_vars
SpecStoreSearch == InitStoreOnly /\ [][NextStoreSearch]_vars

\* MemoryService and MemoryClient over the in-memory store, one call at a time.
SpecService == InitServiceOnly /\ [][NextService]_vars

\* MemoryService.search over a store that holds one user's memories.
SpecSearch == InitSearchOnly /\ [][NextSearch]_vars

\* Two callers of the LanceDB store's delete-by-scope and of its row writes.
SpecLance == InitLanceOnly /\ [][NextLance]_vars

\* The in-memory store and the LanceDB store given the same calls.
SpecBackends == InitBackendsOnly /\ [][NextBackends]_vars

\* Two callers of getEmbeddingService, and setEmbeddingService.
SpecModule == InitModuleOnly /\ [][NextModule]_vars

\* Two callers of one LanceDBClient on a new database.
SpecLanceClient == InitLanceClientOnly /\ [][NextLanceClient]_vars

\* The ranking of findKNearest and of the store's search.
SpecRanking == InitRankingOnly /\ [][NextRanking]_vars

\* embed calls on the mock providers.
SpecMock == InitMockOnly /\ [][NextMock]_vars

\* ------------------------------------------------------------------ claims
\* The indices of ts whose text is not in the Map c, and the texts at the
\* indices I in ascending order.
MissIdx(ts, c) == {i \in 1..Len(ts) : ts[i] \notin DOMAIN c}
RECURSIVE Ascending(_)
Ascending(I) ==
  IF I = {} THEN <<>>
  ELSE LET m == CHOOSE x \in I : \A y \in I : y <= x IN Append(Ascending(I \ {m}), m)
AtIndices(ts, I) == [k \in 1..Cardinality(I) |-> ts[Ascending(I)[k]]]

\* C1: once a call for text t has completed with no clearCache() since, an
\* embed(t) is a cache hit: it resolves at once with the embedding the cache
\* held when t first became warm and invokes the wrapped provider not at all;
\* an embed of a text no call has completed for invokes embedUncached exactly
\* once, so embed("x"); embed("x") makes one provider call.
C1_WarmEmbedIsHit ==
  [][\A s \in Slots, t \in Texts :
       EmbedStart(s, t) =>
         IF t \in warm
           THEN /\ calls'[s].pc = "resolved"
                /\ calls'[s].ret = <<firstStored[t]>>
                /\ calls'[s].invoked = <<>>
                /\ cache' = cache
           ELSE calls'[s].invoked = <<[fn |-> "embedUncached", arg |-> <<t>>]>>]_vars

\* C1 witness: an embed of a warm text has just been answered from the cache.
C1_Witness ==
  \E s \in Slots :
    /\ calls[s].op = "embed" /\ calls[s].pc = "resolved"
    /\ calls[s].invoked = <<>>
    /\ calls[s].texts[1] \in warm
    /\ calls[s].ret = <<firstStored[calls[s].texts[1]]>>

\* C2: embedBatch(ts) invokes embedBatchUncached at most once, exactly when
\* some text of ts misses, with the missed texts in their original order; a
\* hit is placed at its index; when the provider answers es, es[k] is placed
\* at the index of the k-th miss, every index of ts is populated, and each
\* pair (k-th missed text, es[k]) has been written to the cache, in order,
\* when the call returns.
C2_BatchPartition ==
  [][\A s \in Slots :
       /\ LET ts == calls'[s].texts IN
            BatchStart(s, ts) =>
              LET I == MissIdx(ts, cache) IN
                /\ calls'[s].invoked =
                     IF I = {} THEN <<>>
                     ELSE <<[fn |-> "embedBatchUncached", arg |-> AtIndices(ts, I)]>>
                /\ \A i \in (1..Len(ts)) \ I : calls'[s].results[i] = cache[ts[i]]
                /\ (I = {}) = (calls'[s].pc = "resolved")
                /\ I = {} => calls'[s].ret = [i \in 1..Len(ts) |-> cache[ts[i]]]
       /\ \A es \in BatchOut(calls[s].uncachedTexts) :
            BatchResolve(s, es) =>
              LET ts == calls[s].texts
                  I  == MissIdx(ts, cache)
                  ix == Ascending(I)
              IN /\ Len(calls'[s].invoked) = 1
                 /\ DOMAIN calls'[s].ret = 1..Len(ts)
                 /\ \A k \in 1..Len(es) : calls'[s].ret[ix[k]] = es[k]
                 /\ \A i \in (1..Len(ts)) \ I : calls'[s].ret[i] = cache[ts[i]]
                 /\ calls'[s].writes = [k \in 1..Len(es) |-> <<ts[ix[k]], es[k]>>]
                 /\ \A k \in 1..Len(es) :
                      /\ ts[ix[k]] \in DOMAIN cache'
                      /\ (\A j \in (k + 1)..Len(es) : ts[ix[j]] # ts[ix[k]])
                            => cache'[ts[ix[k]]] = es[k]]_vars

\* C2 witness: a batch with a hit and two misses has resolved.
C2_Witness ==
  \E s \in Slots :
    /\ calls[s].op = "embedBatch" /\ calls[s].pc = "resolved"
    /\ Len(calls[s].uncachedTexts) >= 2
    /\ Len(calls[s].uncachedTexts) < Len(calls[s].texts)
    /\ calls[s].uncachedIndices[1] = 1

\* What embed(t) returns in the current state, for a deterministic provider.
EmbedValue(t) == IF t \in DOMAIN cache THEN cache[t] ELSE provFn[t]

\* C3: with a wrapped provider that is a deterministic function of the text,
\* a resolved embedBatch(ts) has returned an array of the length of ts whose
\* i-th element is the embedding embed(ts[i]) returns.
C3_BatchEqualsSingle ==
  provDet =>
    \A s \in Slots :
      (calls[s].op = "embedBatch" /\ calls[s].pc = "resolved") =>
        /\ ArrayLength(calls[s].ret) = Len(calls[s].texts)
        /\ DOMAIN calls[s].ret = 1..Len(calls[s].texts)
        /\ \A i \in 1..Len(calls[s].texts) : calls[s].ret[i] = EmbedValue(calls[s].texts[i])

\* C3 witness: a resolved batch with a duplicate text, a hit and a miss, under
\* a deterministic provider that tells the two texts apart.
C3_Witness ==
  /\ provDet
  /\ \E t1, t2 \in Texts : provFn[t1] # provFn[t2]
  /\ \E s \in Slots :
       /\ calls[s].op = "embedBatch" /\ calls[s].pc = "resolved"
       /\ Len(calls[s].texts) = 3
       /\ calls[s].texts[1] = calls[s].texts[3]
       /\ calls[s].texts[1] # calls[s].texts[2]
       /\ Len(calls[s].uncachedTexts) \in {1, 2}

\* The concurrency limit the caller configured, 4 when none was given.
ConfiguredLimit == IF poolCfg.given THEN poolCfg.n ELSE DefaultConcurrency
\* The workers whose embed call has been started and has not settled.
InFlight == {w \in DOMAIN workers : workers[w].pc = "await"}

\* C4: in the worker-pool embedBatch, for any batch and any maxConcurrency
\* >= 1 (4 when not configured), the embed calls started and not yet settled
\* never number more than maxConcurrency, whatever the completion order.
C4_BoundedOutstanding ==
  ConfiguredLimit >= 1 =>
    /\ outstanding <= ConfiguredLimit
    /\ Cardinality(InFlight) = outstanding

\* C4 witness: as many calls as the limit allows are outstanding while items
\* still wait in the queue.
C4_Witness ==
  /\ poolCfg.given /\ poolCfg.n >= 1
  /\ outstanding = poolCfg.n
  /\ Len(queue) > 0

\* C5: when the worker-pool embedBatch resolves for n texts with
\* maxConcurrency >= 1, every (text, index) pair was taken by exactly one
\* worker and embedded exactly once, and the delivered array holds at every
\* index 1..n the embedding of the text at that index, with no hole.
C5_EachItemOnce ==
  (poolPhase = "resolved" /\ ConfiguredLimit >= 1) =>
    /\ DOMAIN delivered = 1..Len(poolTexts)
    /\ \A i \in 1..Len(poolTexts) :
         /\ started[i] = 1
         /\ Cardinality(takenBy[i]) = 1
         /\ delivered[i] = EmbeddingOf(poolTexts[i])

\* C5 witness: a batch longer than its worker pool has resolved, two workers
\* having taken items.
C5_Witness ==
  /\ poolPhase = "resolved"
  /\ Len(workers) = 2 /\ Len(poolTexts) > 2
  /\ \E i, j \in 1..Len(poolTexts) : takenBy[i] # takenBy[j]

\* C6 as claimed: once an item's embed has failed and every worker has
\* stopped, the embeddings of the other items of the batch have been
\* delivered to the caller of embedBatch.
C6_PerItemIsolation ==
  (failedIdx # {} /\ InFlight = {}) =>
    \A i \in (1..Len(poolTexts)) \ failedIdx :
      i \in DOMAIN delivered /\ delivered[i] = EmbeddingOf(poolTexts[i])

\* C6, amended: a failure is per batch. Once the embed of one item has
\* failed, embedBatch has rejected and delivers nothing to its caller,
\* whatever the other workers computed; an embedBatch resolves only when no
\* item failed; the worker whose item failed takes no further item, and what
\* the others store is still the embedding of the text at that index.
C6_FailureRejectsBatch ==
  /\ failedIdx # {} => (poolPhase = "rejected" /\ delivered = Empty)
  /\ poolPhase = "resolved" => failedIdx = {}
  /\ \A w \in DOMAIN workers :
       workers[w].pc = "failed" => takenBy[workers[w].item.index] = {w}
  /\ \A i \in DOMAIN poolResults : poolResults[i] = EmbeddingOf(poolTexts[i])

\* C6 witness: one item failed, another item of the same batch was embedded
\* by a different worker, every worker has stopped, and the call is rejected.
C6_Witness ==
  /\ failedIdx # {} /\ InFlight = {}
  /\ poolPhase = "rejected"
  /\ \E i \in DOMAIN poolResults : i \notin failedIdx

C8_CreateReuses ==
  [][\A p \in Procs :
       ((CreateReadyDone(p) \/ CreateInitDone(p)) /\ fops'[p].pc = "resolved") =>
         LET r   == fops'[p]
             key == KeyOf(r.cfg)
             old == IF key \in DOMAIN r.regBefore THEN r.regBefore[key] ELSE 0
         IN IF old # 0 /\ insts[old].handle
              THEN /\ r.ret = old
                   /\ Len(insts') = r.nBefore
                   /\ instances' = r.regBefore
              ELSE /\ r.ret = r.nBefore + 1
                   /\ Len(insts') = r.nBefore + 1
                   /\ insts'[r.ret].kind = r.cfg.provider
                   /\ insts'[r.ret].live
                   /\ instances' = Put(r.regBefore, key, r.ret)]_vars

\* C8 witness: a create has returned the instance an earlier create
\* registered, constructing nothing.
C8_Witness ==
  \E p \in Procs :
    /\ fops[p].op = "create" /\ fops[p].pc = "resolved"
    /\ fops[p].seen # 0 /\ fops[p].ret = fops[p].seen /\ fops[p].made = 0
    /\ Len(insts) = fops[p].nBefore

\* C9: when disposeAll() resolves, dispose() has been called on every
\* instance registered when it was called and the registry is empty;
\* disposeAll() on an empty registry resolves and leaves it empty; a
\* create(config) on the empty registry constructs a fresh instance.
C9_DisposeAllClears ==
  [][\A p \in Procs :
       /\ DisposeAllDone(p) =>
            /\ fops'[p].pc = "resolved" =>
                 /\ instances' = Empty
                 /\ \A i \in Range(fops[p].regBefore) :
                      insts'[i].byDisposeAll /\ insts'[i].life = "Disposed"
            /\ fops[p].regBefore = Empty => fops'[p].pc = "resolved"
       /\ LET cfg == fops'[p].cfg IN
            (CreateStart(p, cfg) /\ instances = Empty /\ cfg.provider \in Providers) =>
              /\ fops'[p].made = Len(insts) + 1
              /\ Len(insts') = Len(insts) + 1]_vars

\* C9 witness: a disposeAll() of a registry that held an instance has
\* resolved and the registry is empty.
C9_Witness ==
  \E p \in Procs :
    /\ fops[p].op = "disposeAll" /\ fops[p].pc = "resolved"
    /\ fops[p].regBefore # Empty
    /\ instances = Empty

\* C10: createNew(config), alone or inside isProviderAvailable, leaves the
\* registry as it was; the instance it returns is not a registered one; no
\* instance made by createNew is ever registered, returned by create or
\* disposed by disposeAll().
C10_CreateNewBypasses ==
  /\ \A k \in DOMAIN instances : insts[instances[k]].origin = "create"
  /\ \A i \in DOMAIN insts : insts[i].origin = "createNew" => ~insts[i].byDisposeAll
  /\ \A p \in Procs :
       /\ fops[p].op \in {"createNew", "isProviderAvailable"} => instances = fops[p].regBefore
       /\ (fops[p].op = "createNew" /\ fops[p].pc = "resolved") =>
            /\ fops[p].ret = fops[p].nBefore + 1
            /\ fops[p].ret \notin Range(instances)
            /\ insts[fops[p].ret].origin = "createNew"
       /\ (fops[p].op = "create" /\ fops[p].pc = "resolved") =>
            insts[fops[p].ret].origin = "create"

\* C10 witness: createNew has returned an instance while another instance is
\* registered under the same key.
C10_Witness ==
  \E p \in Procs :
    /\ fops[p].op = "createNew" /\ fops[p].pc = "resolved"
    /\ KeyOf(fops[p].cfg) \in DOMAIN instances
    /\ instances[KeyOf(fops[p].cfg)] # fops[p].ret

\* ------------------------------------------------- claims about the store

\* The listings of every scope of a table, as a caller sees them.
MemoryListings ==
  [u \in Users |-> [p \in ProjectArgs |-> ListMemories(u, p, NoNumber, NoNumber)]]
FactListings == [k \in ParentIds |-> ListFacts(k, NoNumber, NoNumber)]
MessageListings == [k \in ParentIds |-> ListChatMessages(k, NoNumber, NoNumber)]

\* C11: a delete-by-scope of the in-memory store removes exactly the
\* entities of the scope (the owner's, of the project when a project id is
\* given; an empty string counts as not given), returns the number of
\* entities it removed and leaves every other entity and every other table as
\* it was; afterwards the listing of the deleted scope is empty and the
\* listing of every other owner is what it was.
C11_DeleteByScope ==
  [][LET r == storeRet' IN
     /\ r.op = "deleteUserMemories" =>
          LET Out(m) == ~InMemoryScope(m, r.args.owner, r.args.project) IN
          /\ memories' = SelectSeq(memories, Out)
          /\ r.n = Len(memories) - Len(memories')
          /\ MemoryListings'[r.args.owner][r.args.project] = <<>>
          /\ \A u \in Users \ {r.args.owner} : MemoryListings'[u] = MemoryListings[u]
          /\ UNCHANGED <<facts, chatMessages, projects, knowledgeBases, chatSessions>>
     /\ r.op = "deleteKnowledgeBaseFacts" =>
          LET Out(f) == f.kb_id # r.args.owner IN
          /\ facts' = SelectSeq(facts, Out)
          /\ r.n = Len(facts) - Len(facts')
          /\ FactListings'[r.args.owner] = <<>>
          /\ \A k \in ParentIds \ {r.args.owner} : FactListings'[k] = FactListings[k]
          /\ UNCHANGED <<memories, chatMessages, projects, knowledgeBases, chatSessions>>
     /\ r.op = "deleteChatSessionMessages" =>
          LET Out(m) == m.session_id # r.args.owner IN
          /\ chatMessages' = SelectSeq(chatMessages, Out)
          /\ r.n = Len(chatMessages) - Len(chatMessages')
          /\ MessageListings'[r.args.owner] = <<>>
          /\ \A k \in ParentIds \ {r.args.owner} : MessageListings'[k] = MessageListings[k]
          /\ UNCHANGED <<memories, facts, projects, knowledgeBases, chatSessions>>
  ]_vars

\* C11 witness: deleteUserMemories for a project has removed a memory and
\* left another one in the store.
C11_Witness ==
  /\ storeRet.op = "deleteUserMemories"
  /\ Truthy(storeRet.args.project)
  /\ storeRet.n >= 1
  /\ memories # <<>>

\* C12: in the LanceDB store, the number a delete-by-scope returns is the
\* number of rows its own delete removed, whatever the other caller adds or
\* deletes in the same scope meanwhile.
C12_CountIsRowsRemoved ==
  \A p \in Procs :
    lanceOps[p].pc = "resolved" => lanceOps[p].ret = Len(lanceOps[p].removed)

\* C12, without interleaving: when no row of the scope is written between the
\* enumeration and the delete, the rows removed are the rows enumerated.
C12_CountOfEnumerated ==
  [][\A p \in Procs :
       (lanceOps[p].pc = "enumerated" /\ lanceOps'[p].pc = "resolved") =>
         /\ lanceOps'[p].ret = Len(lanceOps[p].toDelete)
         /\ LET In(r) == MatchesWhere(r, lanceOps[p].owner, lanceOps[p].project)
            IN SelectSeq(lanceRows[lanceOps[p].table], In) = lanceOps[p].toDelete
               => lanceOps'[p].ret = Len(lanceOps'[p].removed)
  ]_vars

\* C12 witness: a delete-by-scope has returned a count of rows that its
\* delete did not remove.
C12_Witness ==
  \E p \in Procs :
    /\ lanceOps[p].pc = "resolved"
    /\ lanceOps[p].ret > Len(lanceOps[p].removed)

\* The entities a search call r is to choose from, read off the tables: the
\* scope's entities that carry an embedding.
InSearchScope(r) ==
  IF r.op = "searchMemories"
    THEN {m \in Entries(memories) :
            /\ m.user_id = r.args.owner
            /\ Truthy(r.args.project) => m.project_id = r.args.project
            /\ m.embedding.given}
  ELSE IF r.op = "searchFacts"
    THEN {f \in Entries(facts) : f.kb_id = r.args.owner /\ f.embedding.given}
    ELSE {m \in Entries(chatMessages) : m.session_id = r.args.owner /\ m.embedding.given}

\* The score the call r owes the entity e.
ScoreOf(r, e) == CosineSimilarity(r.args.embedding.v, e.embedding.v)

\* s >= t for two scores: both are numbers and s is not less than t.
ScoreAtLeast(s, t) == s.kind = "num" /\ t.kind = "num" /\ ~ScoreLess(s, t)

\* The result of the search call r is the first min(limit, n) elements of its
\* n in-scope entities in an order of non-increasing similarity_score, each
\* with its score.
IsTopOfScope(r) ==
  LET scope == InSearchScope(r)
      limit == OrDefault(r.args.limit, SearchLimitDefault)
      got   == r.list
  IN /\ Len(got) = Min(limit, Cardinality(scope))
     /\ \A i \in 1..Len(got) :
          /\ got[i].entity \in scope
          /\ got[i].similarity_score = ScoreOf(r, got[i].entity)
     /\ \A i, j \in 1..Len(got) : i # j => got[i].entity # got[j].entity
     /\ \A i \in 1..(Len(got) - 1) :
          ScoreAtLeast(got[i].similarity_score, got[i + 1].similarity_score)
     /\ \A e \in scope :
          (\A i \in 1..Len(got) : got[i].entity # e) =>
            \A i \in 1..Len(got) : ScoreAtLeast(got[i].similarity_score, ScoreOf(r, e))

\* A search call that returned, with a limit that is a count.
SearchReturned(r) ==
  /\ r.op \in {"searchMemories", "searchFacts", "searchChatMessages"}
  /\ ~r.threw
  /\ OrDefault(r.args.limit, SearchLimitDefault) >= 0

\* C13: a search of the in-memory store returns the first min(limit, n) of
\* the n entities of the scope that carry an embedding, in non-increasing
\* order of similarity_score, no entity of another scope, and modifies no
\* table.
C13_SearchTopOfScope ==
  [][SearchReturned(storeRet') =>
       /\ IsTopOfScope(storeRet')
       /\ UNCHANGED <<projects, memories, knowledgeBases, facts, chatSessions, chatMessages>>
  ]_vars

\* C13, where every score is a number: the same, for the searches whose
\* query vector and in-scope embeddings all have a non-zero norm.
C13_SearchTopOfScopeNumeric ==
  [][(/\ SearchReturned(storeRet')
      /\ \A e \in InSearchScope(storeRet') : ScoreOf(storeRet', e).kind = "num") =>
       /\ IsTopOfScope(storeRet')
       /\ UNCHANGED <<projects, memories, knowledgeBases, facts, chatSessions, chatMessages>>
  ]_vars

\* C13 witness: searchMemories with limit 1 returned the better of two
\* in-scope memories whose scores are different numbers, while the store
\* holds no other memory.
C13_Witness ==
  /\ storeRet.op = "searchMemories" /\ ~storeRet.threw
  /\ storeRet.args.limit = Some(1)
  /\ Len(storeRet.list) = 1
  /\ \E e \in InSearchScope(storeRet) :
       /\ ScoreOf(storeRet, e).kind = "num"
       /\ ScoreLess(ScoreOf(storeRet, e), storeRet.list[1].similarity_score)

\* The entities a listing call r returned.
Listed(r) == {r.list[i] : i \in 1..Len(r.list)}

\* C14: an entity stored without an embedding is in no search result; it
\* stays in its table through every call but a delete-by-id of its id and a
\* delete-by-scope of its scope, and while it is there get-by-id returns it
\* and the listing of its scope contains it.
C14_NoEmbeddingStillStored ==
  [][LET r == storeRet' IN
     /\ (r.op \in {"searchMemories", "searchFacts", "searchChatMessages"} /\ ~r.threw) =>
          \A i \in 1..Len(r.list) : r.list[i].entity.embedding.given
     /\ \A m \in Entries(memories) : ~m.embedding.given =>
          \/ m \in Entries(memories')
          \/ r.op = "deleteMemory" /\ r.args.id = m.id
          \/ r.op = "deleteUserMemories" /\ InMemoryScope(m, r.args.owner, r.args.project)
     /\ \A f \in Entries(facts) : ~f.embedding.given =>
          \/ f \in Entries(facts')
          \/ r.op = "deleteFact" /\ r.args.id = f.id
          \/ r.op = "deleteKnowledgeBaseFacts" /\ r.args.owner = f.kb_id
     /\ \A m \in Entries(chatMessages) : ~m.embedding.given =>
          \/ m \in Entries(chatMessages')
          \/ r.op = "deleteChatMessage" /\ r.args.id = m.id
          \/ r.op = "deleteChatSessionMessages" /\ r.args.owner = m.session_id
     /\ \A m \in Entries(memories') : ~m.embedding.given =>
          /\ (r.op = "getMemory" /\ r.args.id = m.id) => r.list = <<m>>
          /\ (r.op = "getUserMemories" /\ InMemoryScope(m, r.args.owner, r.args.project)) =>
               m \in Listed(r)
     /\ \A f \in Entries(facts') : ~f.embedding.given =>
          /\ (r.op = "getFact" /\ r.args.id = f.id) => r.list = <<f>>
          /\ (r.op = "getKnowledgeBaseFacts" /\ r.args.owner = f.kb_id) => f \in Listed(r)
     /\ \A m \in Entries(chatMessages') : ~m.embedding.given =>
          /\ (r.op = "getChatMessage" /\ r.args.id = m.id) => r.list = <<m>>
          /\ (r.op = "getChatMessages" /\ r.args.owner = m.session_id) => m \in Listed(r)
  ]_vars

\* C14 witness: a search returned one memory of a user who also owns a memory
\* stored without an embedding.
C14_Witness ==
  /\ storeRet.op = "searchMemories" /\ ~storeRet.threw
  /\ Len(storeRet.list) = 1
  /\ \E m \in Entries(memories) :
       /\ ~m.embedding.given
       /\ InMemoryScope(m, storeRet.args.owner, storeRet.args.project)

\* The children of a parent id in each table, and what get-by-id, the listing
\* and the search of that parent id give for them.
ChildMemories(p) == LET In(m) == m.project_id = p IN SelectSeq(memories, In)
ChildFacts(k) == LET In(f) == f.kb_id = k IN SelectSeq(facts, In)
ChildMessages(s) == LET In(m) == m.session_id = s IN SelectSeq(chatMessages, In)
EntitiesOf(list) == [i \in 1..Len(list) |-> list[i].entity]

\* C16: deleteProject, deleteKnowledgeBase and deleteChatSession remove the
\* parent only: every memory, knowledge base, chat session, fact and message
\* is left as it was; a child leaves its table only by a delete-by-id or a
\* delete-by-scope of its own table; and with the parent gone the children are
\* still returned by get-by-id, by the listing and by the search of the
\* parent's id.
C16_NoCascade ==
  [][LET r == storeRet' IN
     /\ r.op = "deleteProject" =>
          UNCHANGED <<memories, knowledgeBases, chatSessions, facts, chatMessages>>
     /\ r.op = "deleteKnowledgeBase" =>
          UNCHANGED <<memories, projects, chatSessions, facts, chatMessages>>
     /\ r.op = "deleteChatSession" =>
          UNCHANGED <<memories, projects, knowledgeBases, facts, chatMessages>>
     /\ memories' # memories => r.op \in {"createMemory", "deleteMemory", "deleteUserMemories"}
     /\ facts' # facts => r.op \in {"createFact", "deleteFact", "deleteKnowledgeBaseFacts"}
     /\ chatMessages' # chatMessages =>
          r.op \in {"createChatMessage", "deleteChatMessage", "deleteChatSessionMessages"}
     /\ (r.op = "getUserMemories" /\ Truthy(r.args.project) /\ ~HasId(projects, r.args.project)) =>
          r.list = ChildMemories(r.args.project)
     /\ (r.op = "searchMemories" /\ Truthy(r.args.project) /\ ~HasId(projects, r.args.project)) =>
          EntitiesOf(r.list) = ChildMemories(r.args.project)
     /\ (r.op = "getKnowledgeBaseFacts" /\ ~HasId(knowledgeBases, r.args.owner)) =>
          r.list = ChildFacts(r.args.owner)
     /\ (r.op = "searchFacts" /\ ~HasId(knowledgeBases, r.args.owner)) =>
          EntitiesOf(r.list) = ChildFacts(r.args.owner)
     /\ (r.op = "getChatMessages" /\ ~HasId(chatSessions, r.args.owner)) =>
          r.list = ChildMessages(r.args.owner)
     /\ (r.op = "searchChatMessages" /\ ~HasId(chatSessions, r.args.owner)) =>
          EntitiesOf(r.list) = ChildMessages(r.args.owner)
     /\ r.op = "getMemory" => r.list = GetOrNull(memories, r.args.id)
     /\ r.op = "getFact" => r.list = GetOrNull(facts, r.args.id)
     /\ r.op = "getChatMessage" => r.list = GetOrNull(chatMessages, r.args.id)
  ]_vars

\* C16 witness: deleteProject removed a project that a stored memory names.
C16_Witness ==
  /\ storeRet.op = "deleteProject" /\ storeRet.ok
  /\ ChildMemories(storeRet.args.id) # <<>>

\* ---------------------------------------------- claims about the services

\* A searchFacts call of the client that was given no query and has returned.
NoQuerySearchReturned ==
  svcCall.op = "searchFacts" /\ svcCall.pc = "resolved" /\ ~Truthy(svcCall.text)

\* The facts of a knowledge base in insertion order, each with score 1.
FactsWithScoreOne(k) ==
  LET fs == ChildFacts(k) IN
    [i \in 1..Len(fs) |-> [entity |-> fs[i], similarity_score |-> ScoreOne]]

\* C15: MemoryClient.searchFacts with no query returns all the facts of the
\* knowledge base, however many, each with similarity_score 1 and none of
\* another knowledge base, and calls no embed.
C15_NoQueryReturnsAllFacts ==
  NoQuerySearchReturned =>
    /\ svcCall.list = FactsWithScoreOne(svcCall.user)
    /\ \A i \in 1..Len(svcTrace) : svcTrace[i].fn # "embed"

\* C15, as far as the limit lets it: with no query the call returns the
\* first min(limit, n) of the n facts of the knowledge base in insertion
\* order (limit: request.limit, 100 when the request gives none), each with
\* similarity_score 1, none of another knowledge base, and calls no embed.
C15_NoQueryReturnsFirstFacts ==
  NoQuerySearchReturned =>
    LET all == FactsWithScoreOne(svcCall.user)
        n   == Min(OrDefault(svcCall.limit, ListLimitDefault), Len(all))
    IN /\ svcCall.list = SubSeq(all, 1, n)
       /\ \A i \in 1..Len(svcCall.list) :
            /\ svcCall.list[i].entity.kb_id = svcCall.user
            /\ svcCall.list[i].similarity_score = ScoreOne
       /\ \A i \in 1..Len(svcTrace) : svcTrace[i].fn # "embed"

\* C15 witness: a searchFacts call with no query and limit 1 returned one of
\* the two facts of the knowledge base.
C15_Witness ==
  /\ NoQuerySearchReturned
  /\ Len(svcCall.list) = 1
  /\ Len(ChildFacts(svcCall.user)) = 2

\* The memories with the id that the user owns: one or none.
OwnedMemory(userId, memoryId) ==
  LET Is(m) == m.id = memoryId /\ m.user_id = userId IN SelectSeq(memories, Is)

\* C17: MemoryService.getMemory and deleteMemory treat a memory of another
\* user as an id that does not exist: getMemory returns the memory to its
\* owner and null to anyone else; deleteMemory removes it and calls the
\* store's delete for its owner only, and for anyone else returns false, makes
\* the one store call it makes for an absent id and changes no table.
C17_NotYoursIsNotFound ==
  [][(svcCall.pc = "idle" /\ svcCall'.op \in {"getMemory", "deleteMemory"}) =>
       LET c     == svcCall'
           owned == OwnedMemory(c.user, c.id)
       IN /\ c.op = "getMemory" =>
               /\ c.list = owned
               /\ memories' = memories
               /\ svcTrace' = <<Called("getMemory", c.id)>>
          /\ (c.op = "deleteMemory" /\ owned # <<>>) =>
               /\ c.ok
               /\ memories' = WithoutId(memories, c.id)
               /\ svcTrace' = <<Called("getMemory", c.id), Called("deleteMemory", c.id)>>
          /\ (c.op = "deleteMemory" /\ owned = <<>>) =>
               /\ ~c.ok
               /\ memories' = memories
               /\ svcTrace' = <<Called("getMemory", c.id)>>
          /\ UNCHANGED <<projects, knowledgeBases, facts, chatSessions, chatMessages>>
  ]_vars

\* C17 witness: deleteMemory returned false to a user for a stored memory of
\* another user.
C17_Witness ==
  /\ svcCall.op = "deleteMemory" /\ svcCall.pc = "resolved" /\ ~svcCall.ok
  /\ \E m \in Entries(memories) : m.id = svcCall.id /\ m.user_id # svcCall.user

\* The policy flag of the remember call in progress: the request's strip_pii
\* when it gives one, the configured default otherwise.
StripPolicy ==
  IF svcCall.flag.given THEN svcCall.flag.v ELSE svcConfig.stripPiiDefault

C19_FilterNeverRaises ==
  svcCall.op = "search" =>
    /\ svcCall.failedAt # "filterResults"
    /\ (svcCall.pc = "resolved" /\ svcCall.response \in {"rejected", "text", "json"}) =>
         svcCall.list = svcCall.results

\* C19, for a model call that answers: a response that is no JSON or no JSON
\* array makes search return the results unfiltered, and search raises out
\* of the filter only when the model call was rejected.
C19_BadResponseReturnsResults ==
  svcCall.op = "search" =>
    /\ (svcCall.pc = "resolved" /\ svcCall.response \in {"text", "json"}) =>
         svcCall.list = svcCall.results
    /\ svcCall.failedAt = "filterResults" =>
         (svcCall.pc = "rejected" /\ svcCall.response = "rejected")

\* C19 witness: search with the filter on has rejected because the model
\* call of filterResults was rejected.
C19_Witness ==
  /\ svcCall.op = "search" /\ svcCall.pc = "rejected"
  /\ svcCall.failedAt = "filterResults"
  /\ svcCall.results # <<>>

\* a can be had from b by leaving elements of b out.
RECURSIVE IsSubsequence(_, _)
IsSubsequence(a, b) ==
  IF a = <<>> THEN TRUE
  ELSE IF b = <<>> THEN FALSE
  ELSE IF Head(a) = Head(b) THEN IsSubsequence(Tail(a), Tail(b))
  ELSE IsSubsequence(a, Tail(b))

\* The search in progress has returned what filterResults returned.
FilterReturned ==
  /\ svcCall.op = "search" /\ svcCall.pc = "resolved"
  /\ \E i \in 1..Len(svcTrace) : svcTrace[i].fn = "filterResults"

\* The elements of the model's array that filterResults keeps are whole
\* numbers, each greater than the one before.
IndicesAscend ==
  LET Keep(e) == KeepsIndex(e, Len(svcCall.results))
      kept    == SelectSeq(svcCall.indices, Keep)
  IN /\ \A j \in 1..Len(kept) : ~kept[j].half
     /\ \A j \in 1..(Len(kept) - 1) : kept[j].v < kept[j + 1].v

\* C20: whatever the query, the results and the filter's response, what
\* filterResults returns is its input with some elements left out: every
\* element is one of the input, none comes more often than there, and the
\* order is the input's.
C20_FilterOutputIsSubsequence ==
  FilterReturned => IsSubsequence(svcCall.list, svcCall.results)

\* C20, for the responses that list indices the way the prompt asks:
\* MockLLMService's output is always its input with elements left out, and
\* OpenAILLMService's is when the indices it keeps are whole and ascending;
\* in every case an output element is an input element or, for an index that
\* is not whole, undefined.
C20_AscendingIndicesGiveSubsequence ==
  FilterReturned =>
    /\ (svcConfig.llm = "mock" \/ IndicesAscend) =>
         IsSubsequence(svcCall.list, svcCall.results)
    /\ \A i \in 1..Len(svcCall.list) :
         \/ \E j \in 1..Len(svcCall.results) : svcCall.list[i] = svcCall.results[j]
         \/ svcCall.list[i] = UndefinedResult

\* C20 witness: OpenAILLMService.filterResults kept the first and the last
\* of three results.
C20_Witness ==
  /\ FilterReturned /\ svcCall.response = "array"
  /\ Len(svcCall.results) = 3
  /\ svcCall.list = <<svcCall.results[1], svcCall.results[3]>>

\* ------------------------------------------------------------------- C21
\* Two embed calls of the mock provider made with the same dimension.
SameDimensionCalls ==
  {p \in (1..Len(mockLog)) \X (1..Len(mockLog)) :
     mockLog[p[1]].dimension = mockLog[p[2]].dimension}

\* C21 (as stated): for any two texts t1 # t2 embedded by the mock provider
\* with the same dimension, embed(t1) and embed(t2) are different vectors.
C21_DifferentTextDifferentEmbedding ==
  \A p \in SameDimensionCalls :
    mockLog[p[1]].text # mockLog[p[2]].text
      => mockLog[p[1]].embedding # mockLog[p[2]].embedding

\* C21 (what the code gives): two texts embedded with the same dimension get
\* the same vector exactly when their character codes have the same sum, so
\* "ab" and "ba" get the same vector.
C21_SameCodeSumSameEmbedding ==
  \A p \in SameDimensionCalls :
    (mockLog[p[1]].embedding = mockLog[p[2]].embedding)
      <=> (Seed(mockLog[p[1]].text) = Seed(mockLog[p[2]].text))

\* Two different texts with the same sum of character codes have been
\* embedded with the same dimension.
C21_Witness ==
  /\ \E p \in SameDimensionCalls :
       /\ mockLog[p[1]].text # mockLog[p[2]].text
       /\ Seed(mockLog[p[1]].text) = Seed(mockLog[p[2]].text)
  /\ Len(mockLog) = MaxMockCalls

\* ------------------------------------------------------------------- C22
\* A search call of the store, returned or failed.
SearchCalled(r) == r.op \in {"searchMemories", "searchFacts", "searchChatMessages"}

\* An in-scope candidate of the search call r has another length than the query.
HasOtherLength(r) ==
  \E e \in InSearchScope(r) : Len(e.embedding.v) # Len(r.args.embedding.v)

\* The query of the call r, or the embedding of the entity e, has norm 0.
HasZeroNorm(r, e) == SumSq(r.args.embedding.v) = 0 \/ SumSq(e.embedding.v) = 0

\* C22 (as stated): a search fails with the dimension-mismatch error when an
\* in-scope candidate has another length than the query, and a score it
\* returns is never NaN: it is 0 when the query or the candidate has zero norm.
C22_ScoreFollowsContract ==
  [][SearchCalled(storeRet') =>
       /\ HasOtherLength(storeRet') => storeRet'.threw
       /\ \A i \in 1..Len(storeRet'.list) :
            LET s == storeRet'.list[i].similarity_score IN
              /\ s.kind = "num"
              /\ HasZeroNorm(storeRet', storeRet'.list[i].entity) => s.dot = 0
  ]_vars

\* C22 (what the code gives): a search fails exactly when an in-scope
\* candidate has another length than the query; a score it returns is NaN
\* exactly when the query or the candidate has zero norm, and is the quotient
\* dot / (|a| |b|) otherwise.
C22_ZeroNormScoreIsNaN ==
  [][SearchCalled(storeRet') =>
       /\ storeRet'.threw <=> HasOtherLength(storeRet')
       /\ storeRet'.threw => storeRet'.list = <<>>
       /\ \A i \in 1..Len(storeRet'.list) :
            LET s == storeRet'.list[i].similarity_score
                e == storeRet'.list[i].entity
            IN IF HasZeroNorm(storeRet', e)
                 THEN s.kind = "NaN"
                 ELSE s = [kind |-> "num", dot |-> Dot(storeRet'.args.embedding.v, e.embedding.v),
                           na |-> SumSq(storeRet'.args.embedding.v), nb |-> SumSq(e.embedding.v)]
  ]_vars

\* C22 witness: a search returned an entity whose embedding has zero norm,
\* next to one whose embedding has not.
C22_Witness ==
  /\ SearchCalled(storeRet)
  /\ ~storeRet.threw
  /\ \E i, j \in 1..Len(storeRet.list) :
       /\ SumSq(storeRet.list[i].entity.embedding.v) = 0
       /\ SumSq(storeRet.list[j].entity.embedding.v) # 0

\* ------------------------------------------------------------------- C23
\* A findKNearest call that returned, with a k that is a count.
KnnReturned(c) == c.called /\ ~c.threw /\ c.k >= 0

\* Two numeric scores are the same number.
SameScore(s, t) == s.kind = "num" /\ t.kind = "num" /\ ~ScoreLess(s, t) /\ ~ScoreLess(t, s)

\* The pair x ranks before the pair y: a higher score, or the same score and
\* an earlier candidate.
KnnBefore(x, y) ==
  \/ x.score.kind = "num" /\ y.score.kind = "num" /\ ScoreLess(y.score, x.score)
  \/ SameScore(x.score, y.score) /\ x.index < y.index

\* The result of the findKNearest call c is the first min(k, n) of its n
\* (index, score) pairs in the order of KnnBefore.
KnnRanked(c) ==
  LET n   == Len(c.embeddings)
      got == c.result
      pair(i) == [index |-> i,
                  score |-> IF c.metric = "cosine"
                              THEN UtilsCosineSimilarity(c.query, c.embeddings[i])
                              ELSE NegEuclideanDistance(c.query, c.embeddings[i])]
  IN /\ Len(got) = Min(c.k, n)
     /\ \A i \in 1..Len(got) : got[i].index \in 1..n /\ got[i] = pair(got[i].index)
     /\ \A i, j \in 1..Len(got) : i < j => KnnBefore(got[i], got[j])
     /\ \A e \in 1..n :
          (\A i \in 1..Len(got) : got[i].index # e) =>
            \A i \in 1..Len(got) : KnnBefore(got[i], pair(e))

\* The table a search call reads, and the place of an entity in it.
SearchedTable(r) ==
  IF r.op = "searchMemories" THEN memories
  ELSE IF r.op = "searchFacts" THEN facts ELSE chatMessages
PlaceOf(r, e) == CHOOSE i \in 1..Len(SearchedTable(r)) : SearchedTable(r)[i] = e

\* The scored entity x ranks before y in the call r: a higher score, or the
\* same score and an earlier place in the store.
StoreBefore(r, x, y) ==
  \/ ScoreAtLeast(x.similarity_score, y.similarity_score)
       /\ ScoreLess(y.similarity_score, x.similarity_score)
  \/ SameScore(x.similarity_score, y.similarity_score)
       /\ PlaceOf(r, x.entity) < PlaceOf(r, y.entity)

\* The result of the search call r is the first min(limit, n) of its n
\* in-scope entities in the order of StoreBefore: the one list the store
\* state and the query determine.
StoreRanked(r) ==
  LET scope == InSearchScope(r)
      got   == r.list
      scored(e) == [entity |-> e, similarity_score |-> ScoreOf(r, e)]
  IN /\ Len(got) = Min(OrDefault(r.args.limit, SearchLimitDefault), Cardinality(scope))
     /\ \A i \in 1..Len(got) : got[i].entity \in scope /\ got[i] = scored(got[i].entity)
     /\ \A i, j \in 1..Len(got) : i < j => StoreBefore(r, got[i], got[j])
     /\ \A e \in scope :
          (\A i \in 1..Len(got) : got[i].entity # e) =>
            \A i \in 1..Len(got) : StoreBefore(r, got[i], scored(e))

\* Entities of the result of the search call r that have the same score are
\* in store order.
StoreTiesInOrder(r) ==
  \A i, j \in 1..Len(r.list) :
    (i < j /\ SameScore(r.list[i].similarity_score, r.list[j].similarity_score))
      => PlaceOf(r, r.list[i].entity) < PlaceOf(r, r.list[j].entity)

\* The result of the search call r is the only one the call can have on
\* this store state with these arguments.
StoreDeterministic(r) ==
  LET cands == IF r.op = "searchMemories" THEN MemoryCandidates(r.args.owner, r.args.project)
               ELSE IF r.op = "searchFacts" THEN FactCandidates(r.args.owner)
               ELSE MessageCandidates(r.args.owner)
  IN \A o \in SearchOutcomes(r.op, r.args, cands) : o.list = r.list

\* C23 (as stated): findKNearest returns min(k, n) pairs in non-increasing
\* score order with equal scores in candidate order; a store search returns
\* entities of equal similarity_score in insertion order, and its result is
\* determined by the store state and the query.
C23_RankingStable ==
  [][/\ KnnReturned(knn') => KnnRanked(knn')
     /\ SearchReturned(storeRet') =>
          StoreTiesInOrder(storeRet') /\ StoreDeterministic(storeRet')
  ]_vars

\* C23 (what the code gives): the same for findKNearest, and for the store
\* searches whose query vector and in-scope embeddings all have a non-zero
\* norm, where the result is the ranking by score and store order.
C23_RankingStableNumeric ==
  [][/\ KnnReturned(knn') => KnnRanked(knn')
     /\ (/\ SearchReturned(storeRet')
         /\ \A e \in InSearchScope(storeRet') : ScoreOf(storeRet', e).kind = "num")
          => StoreRanked(storeRet') /\ StoreDeterministic(storeRet')
  ]_vars

\* C23 witness: findKNearest returned three pairs of which the first was
\* the last candidate and the other two have the same score and kept their
\* candidate order.
C23_Witness ==
  /\ KnnReturned(knn)
  /\ Len(knn.result) = 3
  /\ knn.result[1].index = 3 /\ knn.result[2].index = 1 /\ knn.result[3].index = 2
  /\ SameScore(knn.result[2].score, knn.result[3].score)
  /\ ScoreLess(knn.result[2].score, knn.result[1].score)

\* ------------------------------------------------------------------- C24
\* The full listing of a scope in the in-memory store and in the LanceDB
\* store: the owner's entities of the table, in the table's order.
FullListing(backend, t, owner) ==
  LET InMemories(m) == m.user_id = owner
      InFacts(f)    == f.kb_id = owner
      InMessages(m) == m.session_id = owner
      InRows(r)     == r.owner = owner
  IN IF backend = "lancedb" THEN SelectSeq(lanceRows[t], InRows)
     ELSE IF t = "memories" THEN SelectSeq(memories, InMemories)
     ELSE IF t = "facts" THEN SelectSeq(facts, InFacts)
     ELSE SelectSeq(chatMessages, InMessages)

\* The elements of full at the positions [offset, offset + limit).
PageOf(full, offset, limit) ==
  LET last == Min(offset + limit, Len(full))
  IN [i \in 1..(IF last > offset THEN last - offset ELSE 0) |-> full[offset + i]]

\* What a backend's listing call answers.
ListingOf(backend, t, owner, limit, offset) ==
  IF backend = "lancedb" THEN LanceListing(lanceRows[t], owner, Undefined, limit, offset)
  ELSE IF t = "memories" THEN ListMemories(owner, Undefined, limit, offset)
  ELSE IF t = "facts" THEN ListFacts(owner, limit, offset)
  ELSE ListChatMessages(owner, limit, offset)

\* The pages of size limit from page k on, one after another.
RECURSIVE PagesFrom(_, _, _, _, _)
PagesFrom(backend, t, owner, limit, k) ==
  IF k * limit >= Len(FullListing(backend, t, owner)) THEN <<>>
  ELSE ListingOf(backend, t, owner, Some(limit), Some(k * limit))
         \o PagesFrom(backend, t, owner, limit, k + 1)

\* A listing call has been answered by both stores.
ListingAnswered ==
  /\ storeRet.op \in {"getUserMemories", "getKnowledgeBaseFacts", "getChatMessages"}
  /\ clientCalls["p1"].op = "list" /\ clientCalls["p1"].pc = "done"

\* C24: in both backends a listing with limit >= 1 and offset >= 0 returns
\* the elements at positions [offset, offset + limit) of the full listing of
\* its scope, and the pages at offsets 0, limit, 2 * limit, ... put one after
\* another are the full listing, no element twice.
C24_ListingIsSlice ==
  /\ ListingAnswered =>
       LET t   == BackendTable(storeRet.op)
           own == storeRet.args.owner
           lim == OrDefault(storeRet.args.limit, ListLimitDefault)
           off == OrDefault(storeRet.args.offset, ListOffsetDefault)
       IN /\ storeRet.list = PageOf(FullListing("memory", t, own), off, lim)
          /\ clientCalls["p1"].list = PageOf(FullListing("lancedb", t, own), off, lim)
  /\ \A backend \in {"memory", "lancedb"}, t \in ClientTables, own \in ClientOwners,
        lim \in 1..(MaxRows + 1) :
       LET pages == PagesFrom(backend, t, own, lim, 0) IN
         /\ pages = FullListing(backend, t, own)
         /\ \A i, j \in 1..Len(pages) : i # j => pages[i] # pages[j]

\* C24 witness: both stores hold two memories of one owner and have
\* answered a listing of them with limit 1 and offset 1 by the second.
C24_Witness ==
  /\ ListingAnswered
  /\ storeRet.op = "getUserMemories"
  /\ storeRet.args.limit = Some(1) /\ storeRet.args.offset = Some(1)
  /\ Len(FullListing("memory", "memories", storeRet.args.owner)) = 2
  /\ Len(FullListing("lancedb", "memories", storeRet.args.owner)) = 2
  /\ storeRet.list = <<FullListing("memory", "memories", storeRet.args.owner)[2]>>
  /\ clientCalls["p1"].list = <<FullListing("lancedb", "memories", storeRet.args.owner)[2]>>

\* ------------------------------------------------------------------- C25
\* C25 (as stated): between construction and close(), under any
\* interleaving of the client's calls, createTable / openTable is invoked at
\* most once for a table and every operation on the table runs on one handle.
C25_HandleOpenedOnce ==
  \A t \in ClientTables : opened[t] <= 1 /\ Cardinality(used[t]) <= 1

\* Two calls of the client are in progress.
CallsOverlap ==
  \E p, q \in Procs : p # q /\ clientCalls[p].pc # "idle" /\ clientCalls[q].pc # "idle"

\* C25 (what the code gives): the same, as long as no two calls of the
\* client overlap.
C25_OpenedOnceWithoutOverlap == (<>CallsOverlap) \/ [](C25_HandleOpenedOnce)

\* C25 witness: a call found the handle an earlier call had stored and ran
\* on it, the table having been opened once.
C25_Witness ==
  \E p \in Procs :
    /\ clientCalls[p].pc = "done"
    /\ clientCalls[p].op = "get"
    /\ clientCalls[p].list # <<>>
    /\ \A q \in Procs \ {p} : clientCalls[q].pc = "idle"
    /\ opened["memories"] = 1
    /\ used["memories"] = {handles["memories"]}
    /\ handles["memories"] # NoHandle

\* ------------------------------------------------------------------- C26
\* The calls of getEmbeddingService made since the latest setEmbeddingService
\* (or since the module was loaded) returned one provider and constructed at
\* most one; after setEmbeddingService(s) they returned s and constructed none.
OneProvider ==
  /\ Cardinality(returnedSince) <= 1
  /\ Cardinality(madeSince) <= 1
  /\ lastSet # NoService => returnedSince \subseteq {lastSet} /\ madeSince = {}

\* C26 (as stated): any two calls of getEmbeddingService with no
\* setEmbeddingService between them return the identical provider and
\* construct at most one, also when they overlap in time; after
\* setEmbeddingService(s) every call returns s.
C26_SingleProvider == OneProvider

\* A call of getEmbeddingService awaits its import while another does, or
\* while setEmbeddingService is called.
GetsOverlap ==
  \/ \E p, q \in Procs : p # q /\ getCalls[p].pc = "import" /\ getCalls[q].pc = "import"
  \/ \E p \in Procs : getCalls[p].pc = "import" /\ getCalls[p].stale

\* C26 (what the code gives): the same for the providers that are
\* constructed without an await, and for the others as long as no call
\* overlaps another call or a setEmbeddingService.
C26_SingleProviderWithoutOverlap ==
  /\ [](embeddingProvider.name \in SyncProviders => OneProvider)
  /\ ((<>GetsOverlap) \/ []OneProvider)

\* C26 witness: with a provider that is imported, two calls made one after
\* the other have returned the one provider the first constructed.
C26_Witness ==
  /\ embeddingProvider.name \in ImportedProviders
  /\ lastSet = NoService
  /\ \A p \in Procs : getCalls[p].pc = "done" /\ getCalls[p].ret = embeddingService
  /\ Cardinality(madeSince) = 1
  /\ returnedSince = madeSince

\* ---------------------------------------------------------------- C27
\* Some call has failed, and texts have been both found and missed since the
\* construction or the last clearCache().
CountedBothWays ==
  /\ found > 0
  /\ requested > found
  /\ \E s \in SeqSlots : calls[s].pc = "rejected"

\* C27: after any sequence of embed and embedBatch calls since construction or
\* the last clearCache(), failed ones included, cacheHits + cacheMisses is the
\* number of texts asked for, cacheHits is the number of them the cache held
\* when they were looked up, and the reported cacheHitRate is
\* cacheHits / (cacheHits + cacheMisses), or 0 when no text was asked for.
C27_CountersCountTexts ==
  /\ cacheHits + cacheMisses = requested
  /\ cacheHits = found
  /\ requested = 0 => CacheHitRate.num = 0
  /\ requested > 0 => CacheHitRate = [num |-> found, den |-> requested]

\* C27 witness: a batch with a hit and a miss has failed and been counted.
C27_Witness ==
  /\ CountedBothWays
  /\ \E s \in SeqSlots : calls[s].op = "embedBatch" /\ calls[s].pc = "rejected"
  /\ cacheHits + cacheMisses = requested
  /\ CacheHitRate = [num |-> found, den |-> requested]

\* ---------------------------------------------------------------- C28
\* The texts the failed call of slot s handed to the wrapped provider.
HandedOver(s) == Range(calls[s].invoked[1].arg)

\* The call of slot s has failed: the provider was asked once, the caller got
\* the error and no result, and none of the texts handed over is in the cache.
FailedOnce(s) ==
  /\ Len(calls[s].invoked) = 1
  /\ calls[s].ret = Empty
  /\ \A t \in HandedOver(s) : t \notin DOMAIN cache

\* The step is an embed of a text whose previous call failed.
EmbedAfterFailure(s) ==
  /\ calls[s].pc = "rejected"
  /\ calls'[s].op = "embed"
  /\ calls'[s].pc # "rejected"
  /\ calls'[s].texts[1] \in HandedOver(s)

\* C28: the cache layer neither retries nor caches failures. When the wrapped
\* provider fails in embed(text) on a miss or in embedBatch, it was invoked
\* exactly once for that call, the error reaches the caller, the cache is as
\* it was before the failure and holds none of the missed texts, and the next
\* embed of such a text invokes the provider again.
C28_FailureNotCached ==
  /\ [](\A s \in SeqSlots : calls[s].pc = "rejected" => FailedOnce(s))
  /\ [][\A s \in SeqSlots :
          /\ (calls[s].pc = "await" /\ calls'[s].pc = "rejected") => cache' = cache
          /\ EmbedAfterFailure(s) =>
               /\ calls'[s].pc = "await"
               /\ calls'[s].invoked =
                    <<[fn |-> "embedUncached", arg |-> <<calls'[s].texts[1]>>]>>]_vars

\* C28 witness: a batch with a cached and a missed text has failed; the cached
\* entry is still there.
C28_Witness ==
  \E s \in SeqSlots :
    /\ calls[s].op = "embedBatch"
    /\ calls[s].pc = "rejected"
    /\ FailedOnce(s)
    /\ \E i \in 1..Len(calls[s].texts) : calls[s].texts[i] \in DOMAIN cache

\* ------------------------------------------------------------------- C29
DeleteOps == {"deleteMemory", "deleteFact", "deleteChatMessage"}

\* A delete by id has been answered by both stores.
DeleteAnswered ==
  /\ storeRet.op \in DeleteOps
  /\ clientCalls["p1"].op = "delete" /\ clientCalls["p1"].pc = "done"

\* The Map of the in-memory store a delete by id works on.
StoreTable(op) ==
  IF op = "deleteMemory" THEN memories ELSE IF op = "deleteFact" THEN facts ELSE chatMessages

\* The step answers a delete by id, in the in-memory store / the LanceDB store.
StoreDeleteStep == storeRet.op = "none" /\ storeRet'.op \in DeleteOps
LanceDeleteStep ==
  /\ clientCalls["p1"].op = "delete"
  /\ clientCalls["p1"].pc = "ready" /\ clientCalls'["p1"].pc = "done"

\* The LanceDB table of the call holds a row with the call's id.
LanceHasRow == LanceDeleted_IfFound(lanceRows[clientCalls["p1"].table], clientCalls["p1"].id)

\* Both stores hold the same entities of table t, the bootstrap row apart.
SameIds(t, tbl) ==
  {r.id : r \in Entries(lanceRows[t])} \ {BootstrapRow.id} = {LanceIdOf(e.id) : e \in Entries(tbl)}

\* C29 (as stated): for the same sequence of creates and deletes, a delete by
\* id returns the same boolean in both backends: true iff an entity with
\* that id existed and was removed by the call, false otherwise.
C29_DeleteAnswersAgree ==
  /\ [](DeleteAnswered => clientCalls["p1"].ok = storeRet.ok)
  /\ [][/\ StoreDeleteStep =>
             storeRet'.ok = HasId(StoreTable(storeRet'.op), storeRet'.args.id)
        /\ LanceDeleteStep => clientCalls'["p1"].ok = LanceHasRow]_vars

\* C29 (what the code does): the in-memory store answers whether the id
\* existed, the LanceDB store answers true whether it existed or not; the
\* entity is gone from both afterwards and the two hold the same entities.
C29_LanceDeleteAnswersTrue ==
  /\ [](DeleteAnswered =>
          /\ clientCalls["p1"].ok
          /\ ~HasId(StoreTable(storeRet.op), storeRet.args.id)
          /\ SameIds(BackendTable(storeRet.op), StoreTable(storeRet.op)))
  /\ [][/\ StoreDeleteStep =>
             storeRet'.ok = HasId(StoreTable(storeRet'.op), storeRet'.args.id)
        /\ LanceDeleteStep => clientCalls'["p1"].ok /\ ~LanceHasRow']_vars

\* C29 witness: a delete of an id no entity has was answered false by the
\* in-memory store and true by the LanceDB store.
C29_Witness ==
  /\ DeleteAnswered
  /\ ~storeRet.ok
  /\ clientCalls["p1"].ok

\* ------------------------------------------------------------------- C30
\* Table t has been created and the delete after createTable has completed.
BootstrapDone(t) ==
  /\ t \in tableNames
  /\ \A p \in Procs : ~(clientCalls[p].table = t /\ clientCalls[p].pc = "bootstrap")

\* No create of the client has added a row yet.
NoUserCreate == lanceNextId = 1

\* A listing or a get on table t has been answered.
ReadAnswered(p, t) ==
  /\ clientCalls[p].table = t
  /\ clientCalls[p].op \in {"list", "get"}
  /\ clientCalls[p].pc = "done"

\* C30 (as stated): after a missing table has been created with its dummy
\* row and the delete that follows has completed, the table holds no row, so
\* before any user create no listing or get on it returns a row, a listing
\* for the owner 'dummy' included.
C30_BootstrapLeavesEmpty ==
  \A t \in ClientTables :
    BootstrapDone(t) /\ NoUserCreate =>
      /\ lanceRows[t] = <<>>
      /\ \A p \in Procs : ReadAnswered(p, t) => clientCalls[p].list = <<>>

\* C30 (what the code does): the dummy row's key is a new uuid and the delete
\* names the key "dummy", so the row stays the first row of the table for
\* good, and a listing for the owner 'dummy' from offset 0 starts with it.
C30_BootstrapRowStays ==
  \A t \in ClientTables :
    t \in tableNames =>
      /\ Len(lanceRows[t]) >= 1
      /\ lanceRows[t][1] = BootstrapRow
      /\ \A p \in Procs :
           /\ ReadAnswered(p, t)
           /\ clientCalls[p].op = "list"
           /\ clientCalls[p].owner = BootstrapRow.owner
           /\ OrDefault(clientCalls[p].offset, ListOffsetDefault) = 0
           => /\ Len(clientCalls[p].list) >= 1
              /\ clientCalls[p].list[1] = BootstrapRow

\* C30 witness: on a table just created, before any create, a listing for
\* the owner 'dummy' has returned the dummy row.
C30_Witness ==
  \E t \in ClientTables :
    /\ BootstrapDone(t)
    /\ NoUserCreate
    /\ ReadAnswered("p1", t)
    /\ clientCalls["p1"].owner = BootstrapRow.owner
    /\ clientCalls["p1"].list = <<BootstrapRow>>

\* ------------------------------------------------------------------- C31
\* Some call awaits the wrapped provider's answer for text t.
InFlightFor(t) ==
  \E s \in Slots : calls[s].pc = "await" /\ t \in Range(calls[s].invoked[1].arg)

\* Two calls await the provider at once; a call handed a text over twice; a
\* call has failed.
CachedCallsOverlap == \A s \in Slots : calls[s].pc = "await"
HandedOverTwice ==
  \E s \in Slots : calls[s].invoked # <<>> /\
    \E i, j \in 1..Len(calls[s].invoked[1].arg) :
      i # j /\ calls[s].invoked[1].arg[i] = calls[s].invoked[1].arg[j]
SomeCallFailed == \E s \in Slots : calls[s].pc = "rejected"

\* C31 (as stated): under any interleaving of embed and embedBatch calls on
\* one cached provider, the wrapped provider does not compute a text
\* redundantly: a call hands a text over once, duplicates within one batch
\* included, and not while another call still awaits the answer for it.
C31_NoRedundantCompute ==
  [][\A t \in Texts :
       computed'[t] > computed[t] => computed'[t] = computed[t] + 1 /\ ~InFlightFor(t)]_vars

\* C31 (what the code does): a text is handed to the provider only when the
\* cache does not hold it at the lookup; between two clearCache() it is
\* computed at most once as long as no calls overlap, no batch hands it over
\* twice and no call fails.
C31_ComputesOnlyMisses ==
  /\ [][\A t \in Texts : computed'[t] > computed[t] => t \notin DOMAIN cache]_vars
  /\ ((<>(CachedCallsOverlap \/ HandedOverTwice \/ SomeCallFailed))
        \/ [](\A t \in Texts : computed[t] <= 1))

\* C31 witness: two calls for one text await the provider at the same time,
\* and the text has been handed over twice.
C31_Witness ==
  /\ CachedCallsOverlap
  /\ \E t \in Texts : computed[t] = 2 /\ \A s \in Slots : calls[s].texts = <<t>>

\* ------------------------------------------------------------------- C32
\* A call that was awaiting the wrapped provider when clearCache() ran.
OvertakenCall == \E s \in Slots : calls[s].stale

\* Every entry of the cache was stored by a call that began after the last
\* clearCache() / dispose() (or after construction).
OnlyFreshEntries == DOMAIN cache \subseteq fresh

\* C32 (as stated): once clearCache() has returned, or dispose() of a cached
\* provider has resolved, the cache is empty and stays empty until a call
\* started afterwards completes, also when calls were awaiting the wrapped
\* provider at that moment.
C32_ClearedStaysEmpty == cache # Empty => fresh # {}

\* C32 (what the code does): the cache holds only entries of calls begun
\* after the last clearCache() as long as no call was in flight when it ran;
\* a call in flight stores its result when the provider answers.
C32_ClearedStaysEmptyWhenQuiet == (<>OvertakenCall) \/ [](OnlyFreshEntries)

\* C32 witness: a call that was in flight at clearCache() has resolved and
\* left its text in the cache, and no later call has completed.
C32_Witness ==
  /\ \E s \in Slots : calls[s].stale /\ calls[s].pc = "resolved"
  /\ cache # Empty
  /\ fresh = {}

\* ------------------------------------------------------------------- C33
\* Caller p's create has resolved.
CreateResolved(p) == fops[p].op = "create" /\ fops[p].pc = "resolved"

\* Both callers are inside a factory call.
FactoryCallsOverlap == \A p \in Procs : ~FSettled(p)

\* Creates that ran at the same time with one key have returned one
\* instance, the one registered under the key.
OneInstancePerKey ==
  \A p, q \in Procs :
    /\ p # q
    /\ CreateResolved(p) /\ CreateResolved(q)
    /\ KeyOf(fops[p].cfg) = KeyOf(fops[q].cfg)
    => /\ fops[p].ret = fops[q].ret
       /\ KeyOf(fops[p].cfg) \in DOMAIN instances
       /\ instances[KeyOf(fops[p].cfg)] = fops[p].ret

\* C33 (as stated): under any interleaving of concurrent create calls with
\* the same provider kind and options, one instance is constructed and
\* initialized for the key, every caller receives it, and it is the one
\* registered under the key.
C33_OneInstancePerKey == OneInstancePerKey

\* The step ends caller p's create after `await service.initialize()`.
CreateRegisters(p) ==
  /\ fops[p].op = "create" /\ fops[p].pc = "awaitInit"
  /\ fops'[p].pc = "resolved"

\* C33 (what the code does): a create that found no ready instance under its
\* key when it started registers the instance it constructed itself, a ready
\* one, over whatever the key holds by then; creates with one key return one
\* instance as long as no factory calls overlap.
C33_CreateRegistersItsOwn ==
  /\ [][\A p \in Procs : CreateRegisters(p) =>
          /\ fops'[p].ret = fops[p].made
          /\ KeyOf(fops[p].cfg) \in DOMAIN instances'
          /\ instances'[KeyOf(fops[p].cfg)] = fops[p].made
          /\ IsReady(insts'[fops[p].made])]_vars
  /\ ((<>FactoryCallsOverlap) \/ []OneInstancePerKey)

\* C33 witness: two creates with one key ran at the same time and returned
\* two instances, both initialized; the registry holds one of them.
C33_Witness ==
  /\ CreateResolved("p1") /\ CreateResolved("p2")
  /\ KeyOf(fops["p1"].cfg) = KeyOf(fops["p2"].cfg)
  /\ fops["p1"].ret # fops["p2"].ret
  /\ IsReady(insts[fops["p1"].ret]) /\ IsReady(insts[fops["p2"].ret])
  /\ Cardinality(Range(instances)) = 1

\* ------------------------------------------------------------------- C34
\* The step ends caller p's disposeAll with the clear of the registry.
DisposeAllClears(p) ==
  /\ fops[p].op = "disposeAll" /\ fops[p].pc = "awaitDispose"
  /\ fops'[p].pc = "resolved"

\* C34 (as stated): under any interleaving of disposeAll() with concurrent
\* create calls, every instance the clear at the end of disposeAll removes
\* from the registry has had its dispose() called, and is disposed.
C34_ClearedWereDisposed ==
  [][\A p \in Procs : DisposeAllClears(p) =>
       \A i \in Range(instances) : insts[i].life = "Disposed" /\ ~insts[i].live]_vars

\* An instance create has returned is live and not in the registry.
Orphaned(i) ==
  /\ insts[i].origin = "create"
  /\ insts[i].escaped
  /\ insts[i].live
  /\ i \notin Range(instances)

\* C34 (what the code does): disposeAll calls dispose() on the instances
\* registered when it is called, and after all of them have resolved clears
\* whatever the registry holds then; no live instance is dropped as long as
\* no factory calls overlap.
C34_DisposesWhatItFound ==
  /\ [][\A p \in Procs : DisposeAllClears(p) =>
          /\ instances' = Empty
          /\ \A i \in fops[p].targets : insts[i].life = "Disposed" /\ ~insts[i].live]_vars
  /\ ((<>FactoryCallsOverlap) \/ [](\A i \in DOMAIN insts : ~Orphaned(i)))

\* C34 witness: a disposeAll has resolved and an instance that a create
\* registered while it was awaiting is live, undisposed, and out of the registry.
C34_Witness ==
  \E p \in Procs, i \in DOMAIN insts :
    /\ fops[p].op = "disposeAll" /\ fops[p].pc = "resolved"
    /\ i \notin fops[p].targets
    /\ Orphaned(i)
    /\ IsReady(insts[i])
    /\ instances = Empty

\* ------------------------------------------------------------------- C35
\* The worker-pool embedBatch call has settled.
PoolSettled == poolPhase \in {"resolved", "rejected"}

\* C35 (as stated): the pool is a barrier for every outcome: when a
\* worker-pool embedBatch has settled, resolved or rejected, no embed call it
\* started is outstanding, and none is started for it afterwards.
C35_BarrierEveryOutcome ==
  /\ [](PoolSettled => outstanding = 0 /\ InFlight = {})
  /\ [][PoolSettled => started' = started]_vars

\* C35 (what the code does): the pool is a barrier for the call that
\* resolves. A call rejects with the first embed that fails, while the other
\* workers go on with the calls they await and with the items left in the queue.
C35_BarrierWhenResolved ==
  /\ [](poolPhase = "resolved" => outstanding = 0 /\ InFlight = {} /\ failedIdx = {})
  /\ [](poolPhase = "rejected" => failedIdx # {})
  /\ [][poolPhase = "resolved" => started' = started]_vars

\* C35 witness: the call is rejected while a worker awaits the embed of an
\* item it took from the queue in its loop.
C35_Witness ==
  /\ poolPhase = "rejected"
  /\ \E w \in InFlight : workers[w].item.index > Len(workers)
  /\ outstanding > 0

\* ------------------------------------------------------------------- C36
\* A non-empty batch was handed to the worker-pool embedBatch.
PoolCalled == poolPhase # "idle" /\ Len(poolTexts) > 0

\* Every index of the delivered array holds the embedding of its text.
DeliveredFull ==
  /\ DOMAIN delivered = 1..Len(poolTexts)
  /\ \A i \in 1..Len(poolTexts) : delivered[i] = EmbeddingOf(poolTexts[i])

\* C36 (as stated): for every non-empty batch and every integer
\* maxConcurrency >= 0 configured on the provider, 0 included, the worker-pool
\* embedBatch of both llama.cpp implementations starts at least one worker
\* and resolves only with an array that holds at every index the embedding
\* of the text at that index.
C36_AlwaysAWorker ==
  PoolCalled =>
    /\ Len(workers) >= 1
    /\ poolPhase = "resolved" => DeliveredFull

\* The service implementation was constructed with maxConcurrency 0.
ServiceWithZero == poolImpl = "service" /\ poolCfg.given /\ poolCfg.n = 0

\* C36 (what the code does): the package implementation reads 0 as 4 and
\* always has a worker; the service implementation takes the 0 as it is,
\* creates no worker, and resolves at once with an array of holes.
C36_ServiceZeroHasNoWorker ==
  PoolCalled =>
    IF ServiceWithZero
      THEN workers = <<>> /\ poolPhase = "resolved" /\ delivered = Empty /\ outstanding = 0
      ELSE /\ Len(workers) >= 1
           /\ poolPhase = "resolved" => DeliveredFull

\* C36 witness: the service implementation with maxConcurrency 0 has
\* resolved a batch of two texts with no embedding.
C36_Witness ==
  /\ ServiceWithZero
  /\ PoolCalled /\ Len(poolTexts) = 2
  /\ poolPhase = "resolved"
  /\ delivered = Empty

\* ------------------------------------------------------------------- C37
RECURSIVE Pow(_, _)
Pow(b, e) == IF e = 0 THEN 1 ELSE b * Pow(b, e - 1)

\* min(initialDelay * factor^(k-1), maxDelay)
KthWait(r, k) == Min(r.initialDelay * Pow(r.factor, k - 1), r.maxDelay)

\* What holds of a retry call at each of its positions.
RetryBounded(r) ==
  /\ r.fnCalls <= r.maxRetries + 1
  /\ Len(r.waits) = IF r.pc = "waiting" THEN r.fnCalls ELSE r.fnCalls - 1
  /\ r.pc = "returned" => r.ret = r.fnCalls /\ r.lastError = r.fnCalls - 1
  /\ r.pc = "thrown" =>
       /\ r.fnCalls = r.maxRetries + 1
       /\ r.lastError = r.fnCalls
       /\ Len(r.waits) = r.maxRetries
  /\ r.initialDelay <= r.maxDelay => \A k \in 1..Len(r.waits) : r.waits[k] = KthWait(r, k)

\* C37: retry(fn, {maxRetries, initialDelay, maxDelay, factor}), with
\* maxRetries >= 0 and factor >= 0, calls fn at most maxRetries + 1 times and
\* never after a success; it returns the value of the first successful call,
\* and when all maxRetries + 1 calls fail it throws the error of the last; it
\* waits before each re-attempt and not after the last failure, the k-th
\* wait being min(initialDelay * factor^(k-1), maxDelay) for
\* initialDelay <= maxDelay.
C37_RetryBounded ==
  /\ [](retryCall.pc # "idle" => RetryBounded(retryCall))
  /\ [][retryCall'.fnCalls > retryCall.fnCalls => retryCall.pc \in {"idle", "waiting"}]_vars

\* C37 witness: every call of fn has failed, the waits grew to the cap, and
\* the last error was thrown with no wait after it.
C37_Witness ==
  /\ retryCall.pc = "thrown"
  /\ retryCall.maxRetries = MaxRetries
  /\ retryCall.fnCalls = MaxRetries + 1
  /\ Len(retryCall.waits) = MaxRetries
  /\ retryCall.waits[1] < retryCall.maxDelay
  /\ retryCall.waits[MaxRetries] = retryCall.maxDelay

\* ------------------------------------------------------------------- C38
\* A create call of the store.
CreateCalled(r) == r.op \in {"createMemory", "createFact", "createChatMessage"}

\* The in-scope candidates of the search call r whose length is the query's.
SameLength(r) ==
  {e \in InSearchScope(r) : Len(e.embedding.v) = Len(r.args.embedding.v)}

\* C38: a search of the in-memory store fails with the dimension-mismatch
\* error exactly when an in-scope entity that carries an embedding has an
\* embedding of another length than the query's; the failed call returns no
\* part of a result and the store is as before; an entity outside the scope
\* does not make it fail; and a create call stores an embedding of any
\* length without failing.
C38_SearchAllOrNothing ==
  [][/\ SearchCalled(storeRet') =>
          /\ storeRet'.threw <=> HasOtherLength(storeRet')
          /\ storeRet'.threw => storeRet'.list = <<>> /\ storeRet'.n = 0 /\ ~storeRet'.ok
          /\ UNCHANGED <<projects, memories, knowledgeBases, facts, chatSessions, chatMessages,
                         nextId>>
     /\ CreateCalled(storeRet') =>
          /\ ~storeRet'.threw
          /\ Len(storeRet'.list) = 1
          /\ storeRet'.list[1] \in
               Entries(memories') \cup Entries(facts') \cup Entries(chatMessages')
  ]_vars

\* C38 witness: searchMemories failed while its scope holds a memory of the
\* query's length next to one of another length.
C38_Witness ==
  /\ storeRet.op = "searchMemories"
  /\ storeRet.threw
  /\ SameLength(storeRet) # {}
  /\ HasOtherLength(storeRet)

\* C38 witness of the scope: searchMemories returned while another user's
\* memory has another length than the query.
C38_OutOfScopeWitness ==
  /\ storeRet.op = "searchMemories"
  /\ ~storeRet.threw
  /\ \E m \in Entries(memories) :
       /\ m.user_id # storeRet.args.owner
       /\ m.embedding.given
       /\ Len(m.embedding.v) # Len(storeRet.args.embedding.v)

\* ------------------------------------------------------------------- C39
\* Instance i was made by create and its initialize() failed there: no
\* initialize() of it has resolved and none is pending.
FailedInCreate(i) ==
  /\ insts[i].origin = "create"
  /\ insts[i].life = "Uninitialized"
  /\ insts[i].init # "pending"

\* The create call of p rejects in this step.
CreateRejects(p) ==
  /\ fops'[p].op = "create" /\ fops'[p].pc = "rejected"
  /\ fops[p].pc # "rejected" \/ fops[p].op # "create"

\* C39: when createService throws (a provider it has no case for) or
\* initialize() fails (openai without a credential, a load that fails) inside
\* EmbeddingFactory.create, create rejects and the registry is as it was
\* before the call; the instance that failed is not registered, is handed to
\* nobody, and no later create returns it.
C39_FailedCreateLeavesRegistry ==
  /\ [][\A p \in SeqProcs : CreateRejects(p) =>
          /\ instances' = instances
          /\ instances' = fops'[p].regBefore
          /\ fops'[p].ret = 0]_vars
  /\ [](\A i \in DOMAIN insts : FailedInCreate(i) =>
          /\ i \notin Range(instances)
          /\ ~insts[i].escaped
          /\ \A p \in SeqProcs : fops[p].pc = "resolved" => fops[p].ret # i)

\* C39 witness: a create found its key registered with an instance that is
\* no longer ready, made a new instance whose initialize() failed, and
\* rejected; the registry still holds the old instance under the key.
C39_Witness ==
  \E p \in SeqProcs :
    /\ fops[p].op = "create" /\ fops[p].pc = "rejected"
    /\ fops[p].made # 0 /\ FailedInCreate(fops[p].made)
    /\ KeyOf(fops[p].cfg) \in DOMAIN instances
    /\ instances[KeyOf(fops[p].cfg)] # fops[p].made

\* C39 witness of the provider without a case: create({provider: 'cohere'})
\* rejected and no instance was made.
C39_UnknownProviderWitness ==
  \E p \in SeqProcs :
    /\ fops[p].op = "create" /\ fops[p].pc = "rejected"
    /\ fops[p].cfg.provider \notin Providers
    /\ fops[p].made = 0
    /\ instances # Empty

\* ------------------------------------------------------------------- C40
\* A dispose() of instance i has resolved.
WasDisposed(i) == insts[i].life = "Disposed"

\* C40 (as stated): once a dispose() of an instance has resolved, isReady()
\* of that instance is false for good, whatever is called on it afterwards.
C40_DisposedIsTerminal ==
  \A i \in DOMAIN insts : WasDisposed(i) => ~IsReady(insts[i])

\* C40 (what the code gives): isReady() is false when a dispose() resolves,
\* and an instance that was disposed becomes ready again exactly by a further
\* initialize() on it that succeeds.
C40_ReadyAgainByInitialize ==
  [][\A i \in DOMAIN insts :
       /\ (insts[i].live /\ ~insts'[i].live) => ~IsReady(insts'[i])
       /\ (~WasDisposed(i) /\ insts'[i].life = "Disposed") => ~IsReady(insts'[i])
       /\ (WasDisposed(i) /\ ~IsReady(insts[i]) /\ IsReady(insts'[i])) =>
            ClientInitialize(i) \/ InstInitSettle(i, TRUE)
  ]_vars

\* C40 witness: an openai instance whose dispose() resolved is ready again,
\* and no initialize() or dispose() of it is pending.
C40_Witness ==
  \E i \in DOMAIN insts :
    /\ insts[i].kind = "openai"
    /\ WasDisposed(i)
    /\ IsReady(insts[i])
    /\ insts[i].init # "pending" /\ insts[i].disp # "pending"

\* C40 witness of the mock: the same, for an instance the factory's create
\* returned.
C40_MockWitness ==
  \E i \in DOMAIN insts :
    /\ insts[i].kind = "mock" /\ insts[i].origin = "create"
    /\ WasDisposed(i)
    /\ IsReady(insts[i])

====
